---- MODULE Spec2Model ----
(***************************************************************************)
(* A model of the photo/album server (server/src): the album Fragment      *)
(* Engine, the transactional album / permission handlers and the deletion  *)
(* journal.  Every sled transaction and every single non-transactional     *)
(* tree operation is one atomic step.  A transaction that aborts or        *)
(* panics commits nothing.                                                 *)
(***************************************************************************)
EXTENDS Integers, Sequences, FiniteSets, TLC

VARIABLES
    users,          \* tree users: user_id -> User
    emails,         \* tree emails: email -> user_id
    sessions,       \* tree sessions: the set of keys <<user_id, session_key>>
    files,          \* tree files: file_id -> File
    file_names,     \* tree file_names: <<owner_id, name>> -> file_id
    albums,         \* tree albums: album_id -> Album
    user_to_album,  \* tree user_to_album: <<user_id, album_id>> -> Role
    album_to_user,  \* tree album_to_user: the set of keys <<album_id, user_id>>
    inclusions,     \* tree inclusions: the set of keys <<file_id, album_id>>
    fragments,      \* tree fragments: <<album_id, fragment_id>> -> JSON
    delete_journal, \* tree delete: cmd_id -> Command
    next_id,        \* the next value of db.generate_id()
    stack,          \* the call stack of the thread running a delete command
    clock,          \* Utc::now().timestamp()
    creator,        \* history: album_id -> the user whose create call made it
    uploaded,       \* history: the file ids new_id() has given to uploads
    crashes,        \* history: how many times the server has crashed
    viewer,         \* a client that reads an album: what it asked for and got
    disk,           \* the image and temp directories: the set of <<dir, name>>
    uploading       \* the upload request whose body the server is reading

trees == <<users, emails, sessions, files, file_names, albums, user_to_album,
           album_to_user, inclusions, fragments, delete_journal>>

vars == <<users, emails, sessions, files, file_names, albums, user_to_album,
          album_to_user, inclusions, fragments, delete_journal, next_id,
          stack, clock, creator, uploaded, crashes, viewer, disk, uploading>>

----------------------------------------------------------------------------
(* Bounds of the model *)

\* Seconds in a calendar day, scaled down.
DayLen == 2

\* No commit writes a fragment id beyond MaxHead.
MaxHead == 8

\* The longest id list of an AddFiles / RemoveFiles request.
MaxIds == 1

\* The bound on fragment ids where delete commands take steps too.
MaxHeadDelete == 4

\* How many times the server crashes.
MaxCrashes == 1

\* The delete requests that the run with crashes serves.
MaxCommands == 1

\* The bound on fragment ids where uploads and File commands take steps.
MaxHeadFile == 2

\* The adds and removes that one Engine transaction stages, and the bound on
\* fragment ids where Engine transactions are the steps.
MaxOps == 2
MaxHeadEngine == 7

\* The ids one AddFiles request lists where a list mixes files that may be
\* added with one that may not.
MaxIdsAdd == 2

----------------------------------------------------------------------------
(* Identifiers *)

UserIds == {"u0", "u1"}
FileIds == {"id_0", "id_1", "id_2"}
AlbumIds == {"a"}
SessionKeys == {"k0", "k1"}

\* The byte order of the ids, as the ordered trees and BTreeMaps see it.
IdOrder == <<"a", "b", "id_0", "id_1", "id_2", "id_x", "k0", "k1", "u0", "u1">>

Rank(id) == CHOOSE i \in 1..Len(IdOrder) : IdOrder[i] = id

EmailOf(u) == IF u = "u0" THEN "e0" ELSE "e1"

Emails == {EmailOf(u) : u \in UserIds}

Zones == {"UTC", "Asia/Kolkata"}

Roles == {"Owner", "Editor", "Reader"}

\* Option<T>
None == <<>>

Some(x) == <<x>>

----------------------------------------------------------------------------
(* Trees: ordered maps from keys to values *)

EmptyTree == <<>>

Insert(t, k, v) == [x \in DOMAIN t \cup {k} |-> IF x = k THEN v ELSE t[x]]

Remove(t, k) == [x \in DOMAIN t \ {k} |-> t[x]]

SetMin(S) == CHOOSE x \in S : \A y \in S : x <= y

SetMax(S) == CHOOSE x \in S : \A y \in S : y <= x

\* The elements of a set of integers in ascending order.
Ascending(S) ==
    [i \in 1..Cardinality(S) |->
        CHOOSE x \in S : Cardinality({y \in S : y < x}) = i - 1]

----------------------------------------------------------------------------
(* wire::Role *)

can_write(role) == role \in {"Owner", "Editor"}

is_owner(role) == role = "Owner"

----------------------------------------------------------------------------
(* Day bucketing: chrono's time_zone.timestamp(ts, 0).date().and_hms(0,0,0) *)

UtcOffset(tz) == IF tz = "UTC" THEN 0 ELSE DayLen \div 2

Bucket(tz, ts) == ((ts + UtcOffset(tz)) \div DayLen) * DayLen - UtcOffset(tz)

----------------------------------------------------------------------------
(* Sections and Tops, in memory (BTreeMaps) and as JSON *)

\* #[derive(PartialOrd, Ord)] on FileKey {time_stamp, file_id}
FileKeyLess(k1, k2) ==
    \/ k1[1] < k2[1]
    \/ k1[1] = k2[1] /\ Rank(k1[2]) < Rank(k2[2])

EmptySection == <<>>

Section_serialize(section) ==
    LET keys == DOMAIN section
        nth(i) == CHOOSE k \in keys :
                      Cardinality({j \in keys : FileKeyLess(j, k)}) = i - 1
    IN  [i \in 1..Cardinality(keys) |->
            <<nth(i)[1], nth(i)[2], section[nth(i)].width, section[nth(i)].height>>]

IsSectionJson(json) == \A i \in DOMAIN json : Len(json[i]) = 4

Section_deserialize(json) ==
    LET key(i) == <<json[i][1], json[i][2]>>
        last(k) == CHOOSE i \in DOMAIN json :
                       key(i) = k /\ \A j \in DOMAIN json : key(j) = k => j <= i
    IN  [k \in {key(i) : i \in DOMAIN json} |->
            [width |-> json[last(k)][3], height |-> json[last(k)][4]]]

EmptyTop == <<>>

Top_serialize(top) ==
    LET days == Ascending(DOMAIN top)
    IN  [i \in 1..Len(days) |->
            <<days[i], top[days[i]].fragment_id, top[days[i]].length>>]

IsTopJson(json) == \A i \in DOMAIN json : Len(json[i]) = 3

Top_deserialize(json) ==
    LET last(d) == CHOOSE i \in DOMAIN json :
                       json[i][1] = d /\ \A j \in DOMAIN json : json[j][1] = d => j <= i
    IN  [d \in {json[i][1] : i \in DOMAIN json} |->
            [fragment_id |-> json[last(d)][2], length |-> json[last(d)][3]]]

----------------------------------------------------------------------------
(* engine.rs: the Fragment Engine.  An engine value carries the album it   *)
(* mutates, its view of the fragments tree inside the transaction, the     *)
(* cache and the Top; panic records a failed unwrap, underflow that commit  *)
(* subtracted more from album.length than it held.                         *)

Engine_get_id(album_id, fragment_id) == <<album_id, fragment_id>>

Engine_empty(album_id, frags) ==
    Insert(frags, Engine_get_id(album_id, 0), Top_serialize(EmptyTop))

Engine_new(album_id, album, frags) ==
    LET top_id == Engine_get_id(album_id, album.fragment_head)
        found == top_id \in DOMAIN frags /\ IsTopJson(frags[top_id])
    IN  [album_id |-> album_id,
         album |-> album,
         fragments |-> frags,
         cache |-> <<>>,
         top |-> IF found THEN Top_deserialize(frags[top_id]) ELSE EmptyTop,
         panic |-> ~found,
         underflow |-> FALSE]

\* The section, or None where the unwrap panics.
Engine_read(e, id) ==
    LET key == Engine_get_id(e.album_id, id)
    IN  IF key \in DOMAIN e.fragments /\ IsSectionJson(e.fragments[key])
        THEN Some(Section_deserialize(e.fragments[key]))
        ELSE None

Engine_write(e, json) ==
    [e EXCEPT !.fragments =
        Insert(@, Engine_get_id(e.album_id, e.album.fragment_head), json)]

Engine_delete(e, id) ==
    LET key == Engine_get_id(e.album_id, id)
    IN  IF key \in DOMAIN e.fragments
        THEN [e EXCEPT !.fragments = Remove(@, key)]
        ELSE [e EXCEPT !.panic = TRUE]

\* The closure f of add ("insert") or remove ("remove") applied to a section.
ApplyF(op, key, details, section) ==
    IF op = "insert" THEN Insert(section, key, details) ELSE Remove(section, key)

Engine_modify_section(e, time_stamp, op, key, details) ==
    LET ts == Bucket(e.album.description.time_zone, time_stamp)
    IN  IF e.panic THEN e
        ELSE IF ts \in DOMAIN e.cache
        THEN [e EXCEPT !.cache[ts].section = ApplyF(op, key, details, @)]
        ELSE IF ts \in DOMAIN e.top
        THEN LET got == Engine_read(e, e.top[ts].fragment_id)
             IN  IF got = None THEN [e EXCEPT !.panic = TRUE]
                 ELSE [e EXCEPT !.cache = Insert(@, ts,
                          [orig |-> Some(e.top[ts].fragment_id),
                           section |-> ApplyF(op, key, details, got[1])])]
        ELSE [e EXCEPT !.cache = Insert(@, ts,
                 [orig |-> None,
                  section |-> ApplyF(op, key, details, EmptySection)])]

Engine_add(e, file_id, file) ==
    Engine_modify_section(e, file.metadata.last_modified, "insert",
        <<file.metadata.last_modified, file_id>>,
        [width |-> file.width, height |-> file.height])

\* A faulty remove, against which AddThenRemoveRestores is tried: the key of
\* the entry is built without the time stamp of the file.
Engine_remove_epoch_key(e, file_id, file) ==
    Engine_modify_section(e, file.metadata.last_modified, "remove",
        <<0, file_id>>,
        [width |-> file.width, height |-> file.height])

Engine_remove(e, file_id, file) ==
    Engine_modify_section(e, file.metadata.last_modified, "remove",
        <<file.metadata.last_modified, file_id>>,
        [width |-> file.width, height |-> file.height])

\* A faulty commit round, against which TopLengthsMatchSections is tried:
\* the Top entry keeps the length the day had before the round.
CommitSection_prev_length(e, ts) ==
    LET entry == e.cache[ts]
        e1 == IF entry.orig # None THEN Engine_delete(e, entry.orig[1]) ELSE e
        length == Cardinality(DOMAIN entry.section)
        prev_length == IF ts \in DOMAIN e.top THEN e.top[ts].length ELSE 0
        e2 == IF length > 0
              THEN LET w == Engine_write(
                                [e1 EXCEPT !.album.fragment_head = @ + 1],
                                Section_serialize(entry.section))
                   IN  [w EXCEPT !.top = Insert(@, ts,
                            [fragment_id |-> w.album.fragment_head,
                             length |-> prev_length])]
              ELSE [e1 EXCEPT !.top = Remove(@, ts)]
    IN  IF e1.panic THEN e1
        ELSE [e2 EXCEPT !.album.length = @ + length]

\* A faulty commit round, against which RemoveAbsentChangesNothing is tried:
\* a staged Section is written and entered in the Top even where it is empty.
CommitSection_keeps_empty(e, ts) ==
    LET entry == e.cache[ts]
        e1 == IF entry.orig # None THEN Engine_delete(e, entry.orig[1]) ELSE e
        length == Cardinality(DOMAIN entry.section)
        prev_length == IF ts \in DOMAIN e.top THEN e.top[ts].length ELSE 0
        w == Engine_write([e1 EXCEPT !.album.fragment_head = @ + 1],
                          Section_serialize(entry.section))
        e2 == [w EXCEPT !.top = Insert(@, ts,
                   [fragment_id |-> w.album.fragment_head, length |-> length])]
    IN  IF e1.panic THEN e1
        ELSE IF e2.album.length + length < prev_length
        THEN [e2 EXCEPT !.panic = TRUE]
        ELSE [e2 EXCEPT !.album.length = @ + length - prev_length]

\* A faulty commit round, against which LengthNeverUnderflows is tried: the
\* length of the day before the round is subtracted and the new one is not
\* added.
CommitSection_length_not_added(e, ts) ==
    LET entry == e.cache[ts]
        e1 == IF entry.orig # None THEN Engine_delete(e, entry.orig[1]) ELSE e
        length == Cardinality(DOMAIN entry.section)
        prev_length == IF ts \in DOMAIN e.top THEN e.top[ts].length ELSE 0
        e2 == IF length > 0
              THEN LET w == Engine_write(
                                [e1 EXCEPT !.album.fragment_head = @ + 1],
                                Section_serialize(entry.section))
                   IN  [w EXCEPT !.top = Insert(@, ts,
                            [fragment_id |-> w.album.fragment_head,
                             length |-> length])]
              ELSE [e1 EXCEPT !.top = Remove(@, ts)]
    IN  IF e1.panic THEN e1
        ELSE IF e2.album.length < prev_length
        THEN [e2 EXCEPT !.panic = TRUE, !.underflow = TRUE]
        ELSE [e2 EXCEPT !.album.length = @ - prev_length]

\* A faulty commit round, against which NoEmptyDayIsStored is tried: the
\* Top entry of a day whose Section became empty stays, with the length 0.
CommitSection_entry_kept(e, ts) ==
    LET entry == e.cache[ts]
        e1 == IF entry.orig # None THEN Engine_delete(e, entry.orig[1]) ELSE e
        length == Cardinality(DOMAIN entry.section)
        prev_length == IF ts \in DOMAIN e.top THEN e.top[ts].length ELSE 0
        e2 == IF length > 0
              THEN LET w == Engine_write(
                                [e1 EXCEPT !.album.fragment_head = @ + 1],
                                Section_serialize(entry.section))
                   IN  [w EXCEPT !.top = Insert(@, ts,
                            [fragment_id |-> w.album.fragment_head,
                             length |-> length])]
              ELSE IF ts \in DOMAIN e1.top THEN [e1 EXCEPT !.top[ts].length = 0]
              ELSE e1
    IN  IF e1.panic THEN e1
        ELSE IF e2.album.length + length < prev_length
        THEN [e2 EXCEPT !.panic = TRUE, !.underflow = TRUE]
        ELSE [e2 EXCEPT !.album.length = @ + length - prev_length]

\* One round of commit's loop over the cache, for the day ts.
CommitSection(e, ts) ==
    LET entry == e.cache[ts]
        e1 == IF entry.orig # None THEN Engine_delete(e, entry.orig[1]) ELSE e
        length == Cardinality(DOMAIN entry.section)
        prev_length == IF ts \in DOMAIN e.top THEN e.top[ts].length ELSE 0
        e2 == IF length > 0
              THEN LET w == Engine_write(
                                [e1 EXCEPT !.album.fragment_head = @ + 1],
                                Section_serialize(entry.section))
                   IN  [w EXCEPT !.top = Insert(@, ts,
                            [fragment_id |-> w.album.fragment_head,
                             length |-> length])]
              ELSE [e1 EXCEPT !.top = Remove(@, ts)]
    IN  IF e1.panic THEN e1
        \* usize arithmetic: the subtraction panics on underflow where the
        \* build checks overflow and wraps where it does not; no state of any
        \* specification here reaches it (LengthNeverUnderflows)
        ELSE IF e2.album.length + length < prev_length
        THEN [e2 EXCEPT !.panic = TRUE, !.underflow = TRUE]
        ELSE [e2 EXCEPT !.album.length = @ + length - prev_length]

\* A faulty loop, against which CommitAdvancesHead is tried: the staged days
\* are written from the last to the first.
RECURSIVE CommitLoop_descending(_, _)
CommitLoop_descending(e, days) ==
    IF days = <<>> \/ e.panic THEN e
    ELSE CommitLoop_descending(CommitSection(e, days[Len(days)]),
                               SubSeq(days, 1, Len(days) - 1))

RECURSIVE CommitLoop(_, _)
CommitLoop(e, days) ==
    IF days = <<>> \/ e.panic THEN e
    ELSE CommitLoop(CommitSection(e, Head(days)), Tail(days))

\* A faulty commit, against which RemoveLastFileTopAtFive is tried: a Top
\* without days skips an id.
Engine_commit_top_gap(e, now) ==
    IF e.panic \/ DOMAIN e.cache = {} THEN e
    ELSE LET e1 == Engine_delete(e, e.album.fragment_head)
             e2 == CommitLoop(e1, Ascending(DOMAIN e.cache))
             e3 == Engine_write([e2 EXCEPT !.album.fragment_head =
                                     IF DOMAIN e2.top = {} THEN @ + 2 ELSE @ + 1],
                                Top_serialize(e2.top))
         IN  IF e2.panic THEN e2
             ELSE [e3 EXCEPT
                      !.album.last_update = now,
                      !.album.date_range =
                          IF DOMAIN e3.top = {} THEN None
                          ELSE Some(<<SetMin(DOMAIN e3.top), SetMax(DOMAIN e3.top)>>)]

\* A faulty commit, against which EmptyCommitWritesNothing is tried: the
\* Top is rewritten where nothing was staged.
Engine_commit_unconditional(e, now) ==
    IF e.panic THEN e
    ELSE LET e1 == Engine_delete(e, e.album.fragment_head)
             e2 == CommitLoop(e1, Ascending(DOMAIN e.cache))
             e3 == Engine_write([e2 EXCEPT !.album.fragment_head = @ + 1],
                                Top_serialize(e2.top))
         IN  IF e2.panic THEN e2
             ELSE [e3 EXCEPT
                      !.album.last_update = now,
                      !.album.date_range =
                          IF DOMAIN e3.top = {} THEN None
                          ELSE Some(<<SetMin(DOMAIN e3.top), SetMax(DOMAIN e3.top)>>)]

\* commit with the Top written at the id the album's head had before the
\* Sections were written: where no Section is written, the id of the old Top.
Engine_commit_in_place(e, now) ==
    IF e.panic \/ DOMAIN e.cache = {} THEN e
    ELSE LET e1 == Engine_delete(e, e.album.fragment_head)
             e2 == CommitLoop(e1, Ascending(DOMAIN e.cache))
             e3 == Engine_write([e2 EXCEPT !.album.fragment_head =
                                     IF @ = e.album.fragment_head THEN @ ELSE @ + 1],
                                Top_serialize(e2.top))
         IN  IF e2.panic THEN e2
             ELSE [e3 EXCEPT
                      !.album.last_update = now,
                      !.album.date_range =
                          IF DOMAIN e3.top = {} THEN None
                          ELSE Some(<<SetMin(DOMAIN e3.top), SetMax(DOMAIN e3.top)>>)]

Engine_commit(e, now) ==
    IF e.panic \/ DOMAIN e.cache = {} THEN e
    ELSE LET e1 == Engine_delete(e, e.album.fragment_head)
             e2 == CommitLoop(e1, Ascending(DOMAIN e.cache))
             e3 == Engine_write([e2 EXCEPT !.album.fragment_head = @ + 1],
                                Top_serialize(e2.top))
         IN  IF e2.panic THEN e2
             ELSE [e3 EXCEPT
                      !.album.last_update = now,
                      !.album.date_range =
                          IF DOMAIN e3.top = {} THEN None
                          ELSE Some(<<SetMin(DOMAIN e3.top), SetMax(DOMAIN e3.top)>>)]

\* The engine methods the album handlers call beside these (album/engine.rs).
RECURSIVE ReadSections(_, _)
ReadSections(e, days) ==
    IF days = <<>> THEN Some(<<>>)
    ELSE LET got == Engine_read(e, e.top[Head(days)].fragment_id)
             rest == ReadSections(e, Tail(days))
         IN  IF got = None \/ rest = None THEN None
             ELSE LET json == Section_serialize(got[1])
                  IN  Some([i \in 1..Len(json) |-> json[i][2]] \o rest[1])

\* Every file id of every section, in Top order; None where a read panics.
Engine_list_file_ids(e) ==
    IF e.panic THEN None ELSE ReadSections(e, Ascending(DOMAIN e.top))

\* Stage the removal of every section.
Engine_clear_all(e) ==
    IF e.panic THEN e
    ELSE [e EXCEPT !.cache =
            [ts \in DOMAIN e.top |->
                [orig |-> Some(e.top[ts].fragment_id), section |-> EmptySection]]]

----------------------------------------------------------------------------
(* The records of the trees *)

User(email) == [email |-> email]

File(owner_id, width, height, last_modified, name) ==
    [owner_id |-> owner_id, width |-> width, height |-> height,
     metadata |-> [last_modified |-> last_modified, name |-> name]]

\* wire::AlbumSettings; the album's display name plays no part and is left out.
AlbumSettings(time_zone) == [time_zone |-> time_zone]

Album(description, fragment_head, length, last_update, date_range) ==
    [description |-> description, fragment_head |-> fragment_head,
     length |-> length, last_update |-> last_update, date_range |-> date_range]

\* delete::Command
Command(kind, id, file) == [kind |-> kind, id |-> id, file |-> file]

\* A frame of the deleting thread: the command, its journal key, the place
\* in its handler and the last key its current scan returned.
Frame(cmd, cmd_id, pc) == [cmd |-> cmd, cmd_id |-> cmd_id, pc |-> pc, cursor |-> None]

\* The files uploaded before the first state.
UploadedFiles ==
    [f \in FileIds |->
        IF f = "id_0" THEN File("u0", 40, 41, 0, "n0")
        ELSE IF f = "id_1" THEN File("u0", 42, 43, 1, "n1")
        ELSE File("u1", 44, 45, 2, "n2")]

Init ==
    /\ users = [u \in UserIds |-> User(EmailOf(u))]
    /\ emails = [m \in Emails |-> CHOOSE u \in UserIds : EmailOf(u) = m]
    /\ sessions = {<<"u0", "k0">>, <<"u1", "k1">>}
    /\ files = UploadedFiles
    /\ file_names = [k \in {<<UploadedFiles[f].owner_id, UploadedFiles[f].metadata.name>> : f \in FileIds} |->
                        CHOOSE f \in FileIds :
                            k = <<UploadedFiles[f].owner_id, UploadedFiles[f].metadata.name>>]
    /\ albums = EmptyTree
    /\ user_to_album = EmptyTree
    /\ album_to_user = {}
    /\ inclusions = {}
    /\ fragments = EmptyTree
    /\ delete_journal = EmptyTree
    /\ next_id = 0
    /\ stack = <<>>
    /\ clock = 0
    /\ creator = <<>>
    /\ uploaded = FileIds
    /\ crashes = 0
    /\ viewer = None
    /\ disk = {}
    /\ uploading = None

----------------------------------------------------------------------------
(* Request handlers *)

\* A request that fails with the error: the transaction commits nothing.
Fail(error) == UNCHANGED vars

\* The session exists for the supplied key.
test_logged_in(key) == key \in sessions

test_user_can_write(user_id, album_id) ==
    IF <<user_id, album_id>> \notin DOMAIN user_to_album THEN "Unauthorized"
    ELSE IF ~can_write(user_to_album[<<user_id, album_id>>]) THEN "Unauthorized"
    ELSE "Ok"

\* album_create without the lookup of the caller's users record.
album_create_without_user(key, json) ==
    \E album_id \in AlbumIds \ DOMAIN creator :
        LET user_id == key[1]
            album == Album(json, 0, 0, clock, None)
        IN  IF ~test_logged_in(key) THEN Fail("Unauthorized")
            ELSE /\ albums' = Insert(albums, album_id, album)
                 /\ fragments' = Engine_empty(album_id, fragments)
                 /\ user_to_album' = Insert(user_to_album, <<user_id, album_id>>, "Owner")
                 /\ album_to_user' = album_to_user \cup {<<album_id, user_id>>}
                 /\ creator' = Insert(creator, album_id, user_id)
                 /\ UNCHANGED <<users, emails, sessions, files, file_names,
                                inclusions, delete_journal, next_id, stack, clock, viewer, disk, uploading,
                                uploaded, crashes>>

album_create(key, json) ==
    \E album_id \in AlbumIds \ DOMAIN creator :
        LET user_id == key[1]
            album == Album(json, 0, 0, clock, None)
        IN  IF ~test_logged_in(key) THEN Fail("Unauthorized")
            ELSE IF user_id \notin DOMAIN users THEN Fail("Unauthorized")
            ELSE /\ albums' = Insert(albums, album_id, album)
                 /\ fragments' = Engine_empty(album_id, fragments)
                 /\ user_to_album' = Insert(user_to_album, <<user_id, album_id>>, "Owner")
                 /\ album_to_user' = album_to_user \cup {<<album_id, user_id>>}
                 /\ creator' = Insert(creator, album_id, user_id)
                 /\ UNCHANGED <<users, emails, sessions, files, file_names,
                                inclusions, delete_journal, next_id, stack, clock, viewer, disk, uploading,
                                uploaded, crashes>>

\* update's loop: add back every listed file that still has a record.
RECURSIVE update_loop(_, _)
update_loop(e, file_ids) ==
    IF file_ids = <<>> THEN e
    ELSE LET file_id == Head(file_ids)
         IN  update_loop(
                 IF file_id \in DOMAIN files
                 THEN Engine_add(e, file_id, files[file_id])
                 ELSE e,
                 Tail(file_ids))

album_update(key, album_id, json) ==
    LET user_id == key[1]
        album == albums[album_id]
        changed == album.description.time_zone # json.time_zone
        e0 == Engine_new(album_id, album, fragments)
        file_ids == Engine_list_file_ids(e0)
        e1 == Engine_clear_all(e0)
        e2 == Engine_commit(update_loop(e1, file_ids[1]), clock)
        rebucketed == IF changed THEN e2.album ELSE album
    IN  IF ~test_logged_in(key) THEN Fail("Unauthorized")
        ELSE IF test_user_can_write(user_id, album_id) # "Ok" THEN Fail("Unauthorized")
        ELSE IF album_id \notin DOMAIN albums THEN Fail("Unauthorized")
        ELSE IF changed /\ (e0.panic \/ file_ids = None) THEN Fail("Panic")
        ELSE IF changed /\ e2.panic THEN Fail("Panic")
        ELSE /\ albums' = Insert(albums, album_id,
                                 [rebucketed EXCEPT !.description = json])
             /\ fragments' = IF changed THEN e2.fragments ELSE fragments
             /\ UNCHANGED <<users, emails, sessions, files, file_names,
                            user_to_album, album_to_user, inclusions,
                            delete_journal, next_id, stack, clock, viewer, disk, uploading, creator, uploaded, crashes>>

\* add_remove's loop over json.ids; st carries the engine, the inclusions
\* tree inside the transaction and the error that ended the loop.
\* The loop of add_remove with an offending id passed over instead of
\* ending the request.
RECURSIVE add_remove_loop_skips(_, _, _, _, _)
add_remove_loop_skips(st, ids, add, user_id, album_id) ==
    IF ids = <<>> THEN st
    ELSE LET file_id == Head(ids)
             inclusion == <<file_id, album_id>>
             next ==
                 IF add
                 THEN IF file_id \notin DOMAIN files THEN st
                      ELSE IF files[file_id].owner_id # user_id THEN st
                      ELSE [st EXCEPT !.inclusions = @ \cup {inclusion},
                                      !.e = Engine_add(@, file_id, files[file_id])]
                 ELSE IF file_id \in DOMAIN files
                      THEN [st EXCEPT !.inclusions = @ \ {inclusion},
                                      !.e = Engine_remove(@, file_id, files[file_id])]
                      ELSE st
         IN  add_remove_loop_skips(next, Tail(ids), add, user_id, album_id)

RECURSIVE add_remove_loop(_, _, _, _, _)
add_remove_loop(st, ids, add, user_id, album_id) ==
    IF ids = <<>> \/ st.error # "Ok" THEN st
    ELSE LET file_id == Head(ids)
             inclusion == <<file_id, album_id>>
             next ==
                 IF add
                 THEN IF file_id \notin DOMAIN files
                      THEN [st EXCEPT !.error = "Unauthorized"]
                      ELSE IF files[file_id].owner_id # user_id
                      THEN [st EXCEPT !.error = "Unauthorized"]
                      ELSE [st EXCEPT !.inclusions = @ \cup {inclusion},
                                      !.e = Engine_add(@, file_id, files[file_id])]
                 ELSE IF file_id \in DOMAIN files
                      THEN [st EXCEPT !.inclusions = @ \ {inclusion},
                                      !.e = Engine_remove(@, file_id, files[file_id])]
                      ELSE st
         IN  add_remove_loop(next, Tail(ids), add, user_id, album_id)

add_remove(key, album_id, json, add) ==
    LET user_id == key[1]
        e0 == Engine_new(album_id, albums[album_id], fragments)
        st == add_remove_loop([e |-> e0, inclusions |-> inclusions, error |-> "Ok"],
                              json, add, user_id, album_id)
        e1 == Engine_commit(st.e, clock)
    IN  IF ~test_logged_in(key) THEN Fail("Unauthorized")
        ELSE IF test_user_can_write(user_id, album_id) # "Ok" THEN Fail("Unauthorized")
        ELSE IF album_id \notin DOMAIN albums THEN Fail("Unauthorized")
        ELSE IF e0.panic THEN Fail("Panic")
        ELSE IF st.e.panic THEN Fail("Panic")
        ELSE IF st.error # "Ok" THEN Fail(st.error)
        ELSE IF e1.panic THEN Fail("Panic")
        ELSE /\ albums' = Insert(albums, album_id, e1.album)
             /\ fragments' = e1.fragments
             /\ inclusions' = st.inclusions
             /\ UNCHANGED <<users, emails, sessions, files, file_names,
                            user_to_album, album_to_user, delete_journal,
                            next_id, stack, clock, viewer, disk, uploading, creator, uploaded, crashes>>

\* A faulty share, against which OneOwnerTheCreator is tried: the role Owner
\* is granted like any other.
share_any_role(key, album_id, json) ==
    LET user_id == key[1]
        target_user_id == emails[json.email]
        target == <<target_user_id, album_id>>
    IN  IF ~test_logged_in(key) THEN Fail("Unauthorized")
        ELSE IF album_id \notin DOMAIN albums THEN Fail("Unauthorized")
        ELSE IF test_user_can_write(user_id, album_id) # "Ok" THEN Fail("Unauthorized")
        ELSE IF json.email \notin DOMAIN emails THEN Fail("NotFound")
        ELSE /\ user_to_album' = Insert(user_to_album, target, json.role)
             /\ album_to_user' = album_to_user \cup {<<album_id, target_user_id>>}
             /\ UNCHANGED <<users, emails, sessions, files, file_names, albums,
                            inclusions, fragments, delete_journal, next_id,
                            stack, clock, viewer, disk, uploading, creator, uploaded, crashes>>

\* share without the abort that follows the overwrite of an Owner role.
share_overwrites_owner(key, album_id, json) ==
    LET user_id == key[1]
        target_user_id == emails[json.email]
        target == <<target_user_id, album_id>>
    IN  IF json.role = "Owner" THEN Fail("Unauthorized")
        ELSE IF ~test_logged_in(key) THEN Fail("Unauthorized")
        ELSE IF album_id \notin DOMAIN albums THEN Fail("Unauthorized")
        ELSE IF test_user_can_write(user_id, album_id) # "Ok" THEN Fail("Unauthorized")
        ELSE IF json.email \notin DOMAIN emails THEN Fail("NotFound")
        ELSE /\ user_to_album' = Insert(user_to_album, target, json.role)
             /\ album_to_user' = album_to_user \cup {<<album_id, target_user_id>>}
             /\ UNCHANGED <<users, emails, sessions, files, file_names, albums,
                            inclusions, fragments, delete_journal, next_id,
                            stack, clock, viewer, disk, uploading, creator, uploaded, crashes>>

share(key, album_id, json) ==
    LET user_id == key[1]
        target_user_id == emails[json.email]
        target == <<target_user_id, album_id>>
    IN  IF json.role = "Owner" THEN Fail("Unauthorized")
        ELSE IF ~test_logged_in(key) THEN Fail("Unauthorized")
        ELSE IF album_id \notin DOMAIN albums THEN Fail("Unauthorized")
        ELSE IF test_user_can_write(user_id, album_id) # "Ok" THEN Fail("Unauthorized")
        ELSE IF json.email \notin DOMAIN emails THEN Fail("NotFound")
        ELSE IF target \in DOMAIN user_to_album /\ user_to_album[target] = "Owner"
        THEN Fail("BadRequest")
        ELSE /\ user_to_album' = Insert(user_to_album, target, json.role)
             /\ album_to_user' = album_to_user \cup {<<album_id, target_user_id>>}
             /\ UNCHANGED <<users, emails, sessions, files, file_names, albums,
                            inclusions, fragments, delete_journal, next_id,
                            stack, clock, viewer, disk, uploading, creator, uploaded, crashes>>

\* unshare's loop: remove every file of the target from the album.
RECURSIVE unshare_loop(_, _, _, _)
unshare_loop(st, file_ids, target_user_id, album_id) ==
    IF file_ids = <<>> THEN st
    ELSE LET file_id == Head(file_ids)
             mine == file_id \in DOMAIN files
                     /\ files[file_id].owner_id = target_user_id
         IN  unshare_loop(
                 IF mine
                 THEN [st EXCEPT !.inclusions = @ \ {<<file_id, album_id>>},
                                 !.e = Engine_remove(@, file_id, files[file_id])]
                 ELSE st,
                 Tail(file_ids), target_user_id, album_id)

\* unshare without the abort that follows the removal of an Owner entry.
unshare_removes_owner(key, album_id, json) ==
    LET user_id == key[1]
        target_user_id == emails[json.key]
        target == <<target_user_id, album_id>>
        e0 == Engine_new(album_id, albums[album_id], fragments)
        file_ids == Engine_list_file_ids(e0)
        st == unshare_loop([e |-> e0, inclusions |-> inclusions],
                           file_ids[1], target_user_id, album_id)
        e1 == Engine_commit(st.e, clock)
    IN  IF ~test_logged_in(key) THEN Fail("Unauthorized")
        ELSE IF json.key \notin DOMAIN emails THEN Fail("NotFound")
        ELSE IF target_user_id # user_id
                /\ test_user_can_write(user_id, album_id) # "Ok"
        THEN Fail("Unauthorized")
        ELSE IF target \notin DOMAIN user_to_album
        THEN UNCHANGED vars
        ELSE IF album_id \notin DOMAIN albums THEN Fail("Unauthorized")
        ELSE IF e0.panic \/ file_ids = None THEN Fail("Panic")
        ELSE IF e1.panic THEN Fail("Panic")
        ELSE /\ user_to_album' = Remove(user_to_album, target)
             /\ album_to_user' = album_to_user \ {<<album_id, target_user_id>>}
             /\ inclusions' = st.inclusions
             /\ fragments' = e1.fragments
             /\ UNCHANGED <<users, emails, sessions, files, file_names, albums,
                            delete_journal, next_id, stack, clock, viewer, disk, uploading, creator, uploaded, crashes>>

unshare(key, album_id, json) ==
    LET user_id == key[1]
        target_user_id == emails[json.key]
        target == <<target_user_id, album_id>>
        e0 == Engine_new(album_id, albums[album_id], fragments)
        file_ids == Engine_list_file_ids(e0)
        st == unshare_loop([e |-> e0, inclusions |-> inclusions],
                           file_ids[1], target_user_id, album_id)
        e1 == Engine_commit(st.e, clock)
    IN  IF ~test_logged_in(key) THEN Fail("Unauthorized")
        ELSE IF json.key \notin DOMAIN emails THEN Fail("NotFound")
        ELSE IF target_user_id # user_id
                /\ test_user_can_write(user_id, album_id) # "Ok"
        THEN Fail("Unauthorized")
        ELSE IF target \notin DOMAIN user_to_album
        THEN UNCHANGED vars
        ELSE IF user_to_album[target] = "Owner" THEN Fail("BadRequest")
        ELSE IF album_id \notin DOMAIN albums THEN Fail("Unauthorized")
        ELSE IF e0.panic \/ file_ids = None THEN Fail("Panic")
        ELSE IF e1.panic THEN Fail("Panic")
        ELSE /\ user_to_album' = Remove(user_to_album, target)
             /\ album_to_user' = album_to_user \ {<<album_id, target_user_id>>}
             /\ inclusions' = st.inclusions
             \* the engine's album is dropped: albums keeps the record it had
             /\ fragments' = e1.fragments
             /\ UNCHANGED <<users, emails, sessions, files, file_names, albums,
                            delete_journal, next_id, stack, clock, viewer, disk, uploading, creator, uploaded, crashes>>

----------------------------------------------------------------------------
(* delete.rs: the deletion journal and its handlers.  One thread at a time *)
(* runs a delete command; each tree operation and each transaction of a    *)
(* handler is a step of its own, so requests interleave with a cascade.    *)

\* The byte order of the ids that end a key.
ByteOrder == [id \in {IdOrder[i] : i \in DOMAIN IdOrder} |-> Rank(id)]

\* The byte order of the fragment ids that end a key: 8 bytes, big-endian.
BigEndian == [fragment_id \in Nat |-> fragment_id]

\* The next entry of tree.scan_prefix(prefix '.'): the least key of the tree,
\* as it is now, that has the prefix and lies after the last key returned.
\* ord gives the byte order of the keys' suffixes.
scan_prefix(keys, prefix, cursor, ord) ==
    LET after == {k \in keys :
                     /\ k[1] = prefix
                     /\ (cursor = None \/ ord[k[2]] > ord[cursor[1][2]])}
    IN  IF after = {} THEN None
        ELSE Some(CHOOSE k \in after : \A j \in after : ord[k[2]] <= ord[j[2]])

top_frame == stack[Len(stack)]

SetFrame(frame) == [stack EXCEPT ![Len(stack)] = frame]

Running(kind, pc) ==
    /\ stack # <<>>
    /\ top_frame.cmd.kind = kind
    /\ top_frame.pc = pc

FirstStep(kind) ==
    IF kind = "Album" THEN "albums" ELSE IF kind = "File" THEN "files" ELSE "users"

\* main calls restore before it serves: while the frame of restore is on the
\* stack no request is handled.
Restoring == stack # <<>> /\ stack[1].cmd.kind = "Restore"

\* album::delete, up to the call of run: the caller must hold Owner.
album_delete(key, album_id) ==
    LET user_id == key[1]
    IN  /\ stack = <<>>
        /\ IF ~test_logged_in(key) THEN Fail("Unauthorized")
           ELSE IF <<user_id, album_id>> \notin DOMAIN user_to_album
           THEN Fail("Unauthorized")
           ELSE IF ~is_owner(user_to_album[<<user_id, album_id>>])
           THEN Fail("Unauthorized")
           ELSE /\ stack' = <<Frame(Command("Album", album_id, None), next_id, "run")>>
                /\ next_id' = next_id + 1
                /\ UNCHANGED <<trees, clock, viewer, disk, uploading, creator, uploaded, crashes>>

\* user::delete, up to the call of run.
user_delete(key) ==
    LET user_id == key[1]
    IN  /\ stack = <<>>
        /\ IF key \notin sessions THEN Fail("Unauthorized")
           ELSE /\ stack' = <<Frame(Command("User", user_id, None), next_id, "run")>>
                /\ next_id' = next_id + 1
                /\ UNCHANGED <<trees, clock, viewer, disk, uploading, creator, uploaded, crashes>>

\* run that calls the handler without the journal entry.
Command_run_unjournaled ==
    /\ stack # <<>>
    /\ top_frame.pc = "run"
    /\ stack' = SetFrame([top_frame EXCEPT !.pc = FirstStep(top_frame.cmd.kind)])
    /\ UNCHANGED <<trees, next_id, clock, viewer, disk, uploading, creator, uploaded, crashes>>

\* Command::run: the journal entry is written, then finish calls the handler.
Command_run ==
    /\ stack # <<>>
    /\ top_frame.pc = "run"
    /\ delete_journal' = Insert(delete_journal, top_frame.cmd_id, top_frame.cmd)
    /\ stack' = SetFrame([top_frame EXCEPT !.pc = FirstStep(top_frame.cmd.kind)])
    /\ UNCHANGED <<users, emails, sessions, files, file_names, albums,
                   user_to_album, album_to_user, inclusions, fragments,
                   next_id, clock, viewer, disk, uploading, creator, uploaded, crashes>>

\* finish that returns without the removal of the journal entry.
Command_finish_keeps_entry ==
    /\ stack # <<>>
    /\ top_frame.pc = "finish"
    /\ stack' = SubSeq(stack, 1, Len(stack) - 1)
    /\ UNCHANGED <<trees, next_id, clock, viewer, disk, uploading, creator, uploaded, crashes>>

\* Command::finish after the handler returned Ok: the entry is removed and
\* run returns to its caller.
Command_finish ==
    /\ stack # <<>>
    /\ top_frame.pc = "finish"
    /\ delete_journal' = Remove(delete_journal, top_frame.cmd_id)
    /\ stack' = SubSeq(stack, 1, Len(stack) - 1)
    /\ UNCHANGED <<users, emails, sessions, files, file_names, albums,
                   user_to_album, album_to_user, inclusions, fragments,
                   next_id, clock, viewer, disk, uploading, creator, uploaded, crashes>>

\* The Album handler with the album record left in place.
delete_album_albums_kept ==
    /\ Running("Album", "albums")
    /\ stack' = SetFrame([top_frame EXCEPT !.pc = "album_to_user"])
    /\ UNCHANGED <<users, emails, sessions, files, file_names, albums, user_to_album,
                   album_to_user, inclusions, fragments, delete_journal,
                   next_id, clock, viewer, disk, uploading, creator, uploaded, crashes>>

delete_album_albums ==
    /\ Running("Album", "albums")
    /\ albums' = Remove(albums, top_frame.cmd.id)
    /\ stack' = SetFrame([top_frame EXCEPT !.pc = "album_to_user"])
    /\ UNCHANGED <<users, emails, sessions, files, file_names, user_to_album,
                   album_to_user, inclusions, fragments, delete_journal,
                   next_id, clock, viewer, disk, uploading, creator, uploaded, crashes>>

\* A faulty ACL step, against which AclMirror is tried: the entry leaves
\* album_to_user only.
delete_album_acl_one_tree ==
    /\ Running("Album", "album_to_user")
    /\ LET album_id == top_frame.cmd.id
           entry == scan_prefix(album_to_user, album_id, top_frame.cursor, ByteOrder)
       IN  IF entry = None
           THEN /\ stack' = SetFrame([top_frame EXCEPT !.pc = "fragments", !.cursor = None])
                /\ UNCHANGED album_to_user
           ELSE /\ album_to_user' = album_to_user \ {entry[1]}
                /\ stack' = SetFrame([top_frame EXCEPT !.cursor = entry])
    /\ UNCHANGED <<users, emails, sessions, files, file_names, albums,
                   user_to_album, inclusions, fragments, delete_journal,
                   next_id, clock, viewer, disk, uploading, creator, uploaded, crashes>>

delete_album_acl ==
    /\ Running("Album", "album_to_user")
    /\ LET album_id == top_frame.cmd.id
           entry == scan_prefix(album_to_user, album_id, top_frame.cursor, ByteOrder)
       IN  IF entry = None
           THEN /\ stack' = SetFrame([top_frame EXCEPT !.pc = "fragments", !.cursor = None])
                /\ UNCHANGED <<user_to_album, album_to_user>>
           ELSE LET user_id == entry[1][2]
                IN  /\ album_to_user' = album_to_user \ {entry[1]}
                    /\ user_to_album' = Remove(user_to_album, <<user_id, album_id>>)
                    /\ stack' = SetFrame([top_frame EXCEPT !.cursor = entry])
    /\ UNCHANGED <<users, emails, sessions, files, file_names, albums,
                   inclusions, fragments, delete_journal, next_id, clock, viewer, disk, uploading,
                   creator, uploaded, crashes>>

\* A faulty fragments step, against which AlbumDeleteLeavesNothing is tried:
\* the scan ends after its first fragment.
delete_album_fragments_first_only ==
    /\ Running("Album", "fragments")
    /\ LET entry == scan_prefix(DOMAIN fragments, top_frame.cmd.id, None, BigEndian)
       IN  /\ fragments' = IF entry = None THEN fragments ELSE Remove(fragments, entry[1])
           /\ stack' = SetFrame([top_frame EXCEPT !.pc = "inclusions", !.cursor = None])
    /\ UNCHANGED <<users, emails, sessions, files, file_names, albums,
                   user_to_album, album_to_user, inclusions, delete_journal,
                   next_id, clock, viewer, disk, uploading, creator, uploaded, crashes>>

delete_album_fragments ==
    /\ Running("Album", "fragments")
    /\ LET entry == scan_prefix(DOMAIN fragments, top_frame.cmd.id, top_frame.cursor, BigEndian)
       IN  IF entry = None
           THEN /\ stack' = SetFrame([top_frame EXCEPT !.pc = "inclusions", !.cursor = None])
                /\ UNCHANGED fragments
           ELSE /\ fragments' = Remove(fragments, entry[1])
                /\ stack' = SetFrame([top_frame EXCEPT !.cursor = entry])
    /\ UNCHANGED <<users, emails, sessions, files, file_names, albums,
                   user_to_album, album_to_user, inclusions, delete_journal,
                   next_id, clock, viewer, disk, uploading, creator, uploaded, crashes>>

\* The scan takes the album id for the prefix of keys that start with a file id.
delete_album_inclusions ==
    /\ Running("Album", "inclusions")
    /\ LET entry == scan_prefix(inclusions, top_frame.cmd.id, top_frame.cursor, ByteOrder)
       IN  IF entry = None
           THEN /\ stack' = SetFrame([top_frame EXCEPT !.pc = "finish", !.cursor = None])
                /\ UNCHANGED inclusions
           ELSE /\ inclusions' = inclusions \ {entry[1]}
                /\ stack' = SetFrame([top_frame EXCEPT !.cursor = entry])
    /\ UNCHANGED <<users, emails, sessions, files, file_names, albums,
                   user_to_album, album_to_user, fragments, delete_journal,
                   next_id, clock, viewer, disk, uploading, creator, uploaded, crashes>>

delete_user_users ==
    /\ Running("User", "users")
    /\ LET user_id == top_frame.cmd.id
       IN  IF user_id \in DOMAIN users
           THEN /\ users' = Remove(users, user_id)
                /\ emails' = Remove(emails, users[user_id].email)
           ELSE UNCHANGED <<users, emails>>
    /\ stack' = SetFrame([top_frame EXCEPT !.pc = "sessions"])
    /\ UNCHANGED <<sessions, files, file_names, albums, user_to_album,
                   album_to_user, inclusions, fragments, delete_journal,
                   next_id, clock, viewer, disk, uploading, creator, uploaded, crashes>>

\* The User handler without its loop over the user's sessions.
delete_user_sessions_skipped ==
    /\ Running("User", "sessions")
    /\ stack' = SetFrame([top_frame EXCEPT !.pc = "user_to_album", !.cursor = None])
    /\ UNCHANGED <<users, emails, sessions, files, file_names, albums, user_to_album,
                   album_to_user, inclusions, fragments, delete_journal,
                   next_id, clock, viewer, disk, uploading, creator, uploaded, crashes>>

delete_user_sessions ==
    /\ Running("User", "sessions")
    /\ LET entry == scan_prefix(sessions, top_frame.cmd.id, top_frame.cursor, ByteOrder)
       IN  IF entry = None
           THEN /\ stack' = SetFrame([top_frame EXCEPT !.pc = "user_to_album", !.cursor = None])
                /\ UNCHANGED sessions
           ELSE /\ sessions' = sessions \ {entry[1]}
                /\ stack' = SetFrame([top_frame EXCEPT !.cursor = entry])
    /\ UNCHANGED <<users, emails, files, file_names, albums, user_to_album,
                   album_to_user, inclusions, fragments, delete_journal,
                   next_id, clock, viewer, disk, uploading, creator, uploaded, crashes>>

\* The User handler without its loop over the user's albums: no nested
\* Album command is issued.
delete_user_albums_no_nested ==
    /\ Running("User", "user_to_album")
    /\ stack' = SetFrame([top_frame EXCEPT !.pc = "inclusions", !.cursor = None])
    /\ UNCHANGED next_id
    /\ UNCHANGED <<trees, clock, viewer, disk, uploading, creator, uploaded, crashes>>

\* Every album the user has an entry for gets a nested Album command.
delete_user_albums ==
    /\ Running("User", "user_to_album")
    /\ LET entry == scan_prefix(DOMAIN user_to_album, top_frame.cmd.id, top_frame.cursor, ByteOrder)
       IN  IF entry = None
           THEN /\ stack' = SetFrame([top_frame EXCEPT !.pc = "inclusions", !.cursor = None])
                /\ UNCHANGED next_id
           ELSE /\ stack' = Append(SetFrame([top_frame EXCEPT !.cursor = entry]),
                                   Frame(Command("Album", entry[1][2], None), next_id, "run"))
                /\ next_id' = next_id + 1
    /\ UNCHANGED <<trees, clock, viewer, disk, uploading, creator, uploaded, crashes>>

\* The scan takes the user id for the prefix of keys that start with a file
\* id, and the entry's (empty) value for the file id.
delete_user_files ==
    /\ Running("User", "inclusions")
    /\ LET entry == scan_prefix(inclusions, top_frame.cmd.id, top_frame.cursor, ByteOrder)
           file_id == ""
       IN  IF entry = None
           THEN /\ stack' = SetFrame([top_frame EXCEPT !.pc = "finish", !.cursor = None])
                /\ UNCHANGED next_id
           ELSE IF file_id \in DOMAIN files
           THEN /\ stack' = Append(SetFrame([top_frame EXCEPT !.cursor = entry]),
                                   Frame(Command("File", file_id, Some(files[file_id])),
                                         next_id, "run"))
                /\ next_id' = next_id + 1
           ELSE /\ stack' = SetFrame([top_frame EXCEPT !.cursor = entry])
                /\ UNCHANGED next_id
    /\ UNCHANGED <<trees, clock, viewer, disk, uploading, creator, uploaded, crashes>>

\* A panic of the handler.  In a request the thread unwinds and the journal
\* keeps the entry; in restore the process dies, and every restart dies at
\* the same place.
Panic ==
    IF Restoring THEN UNCHANGED vars
    ELSE /\ stack' = <<>>
         /\ UNCHANGED <<trees, next_id, clock, viewer, disk, uploading, creator, uploaded, crashes>>

delete_file_files ==
    /\ Running("File", "files")
    /\ LET file == top_frame.cmd.file[1]
       IN  /\ files' = Remove(files, top_frame.cmd.id)
           /\ file_names' = Remove(file_names, <<file.owner_id, file.metadata.name>>)
    /\ stack' = SetFrame([top_frame EXCEPT !.pc = "inclusions"])
    /\ UNCHANGED <<users, emails, sessions, albums, user_to_album,
                   album_to_user, inclusions, fragments, delete_journal,
                   next_id, clock, viewer, disk, uploading, creator, uploaded, crashes>>

\* One round of the loop over the inclusions of the file: the album, where
\* it still exists, loses the file and the edge in one transaction.  The
\* removal of the files on disk that follows the loop changes no tree: what
\* the three image directories hold under the id goes, and a file that is
\* not there is no error.
delete_file_inclusions ==
    /\ Running("File", "inclusions")
    /\ LET file_id == top_frame.cmd.id
           file == top_frame.cmd.file[1]
           entry == scan_prefix(inclusions, file_id, top_frame.cursor, ByteOrder)
       IN  IF entry = None
           THEN /\ stack' = SetFrame([top_frame EXCEPT !.pc = "finish", !.cursor = None])
                /\ disk' = disk \ {<<dir, file_id>> : dir \in {"upload", "medium", "small"}}
                /\ UNCHANGED <<trees, next_id, clock, viewer, uploading, creator, uploaded, crashes>>
           ELSE LET album_id == entry[1][2]
                    e0 == Engine_new(album_id, albums[album_id], fragments)
                    e1 == Engine_commit(Engine_remove(e0, file_id, file), clock)
                IN  IF album_id \notin DOMAIN albums
                    THEN /\ stack' = SetFrame([top_frame EXCEPT !.cursor = entry])
                         /\ UNCHANGED <<trees, next_id, clock, viewer, disk, uploading, creator, uploaded,
                                        crashes>>
                    ELSE IF e0.panic \/ e1.panic THEN Panic
                    ELSE /\ albums' = Insert(albums, album_id, e1.album)
                         /\ fragments' = e1.fragments
                         /\ inclusions' = inclusions \ {entry[1]}
                         /\ stack' = SetFrame([top_frame EXCEPT !.cursor = entry])
                         /\ UNCHANGED <<users, emails, sessions, files, file_names,
                                        user_to_album, album_to_user,
                                        delete_journal, next_id, clock, viewer, disk, uploading, creator,
                                        uploaded, crashes>>

\* Command::File(file_id, file).run(state) for a file whose record has been
\* read from files, as delete_user makes the call.
file_delete(file_id) ==
    /\ stack = <<>>
    /\ file_id \in DOMAIN files
    /\ stack' = <<Frame(Command("File", file_id, Some(files[file_id])), next_id, "run")>>
    /\ next_id' = next_id + 1
    /\ UNCHANGED <<trees, clock, viewer, disk, uploading, creator, uploaded, crashes>>

\* The process dies at a step boundary and is started again: what the trees
\* hold stays, the threads are gone, and main calls restore.  The sweep of
\* the image directories that main makes first has no step here: it changes
\* no tree (see main_clean_files for the start with files on disk).
Crash ==
    /\ crashes < MaxCrashes
    /\ stack # <<>>
    /\ stack' = <<Frame(Command("Restore", "", None), 0, "iter")>>
    /\ crashes' = crashes + 1
    /\ UNCHANGED <<trees, next_id, clock, viewer, disk, uploading, creator, uploaded>>

\* A tree operation of a handler that serves a request returns an error:
\* the handler returns it through run, which leaves the journal as it is.
\* In restore the error ends the process, which is a crash.
StorageError ==
    /\ crashes < MaxCrashes
    /\ stack # <<>>
    /\ ~Restoring
    /\ stack' = <<>>
    /\ crashes' = crashes + 1
    /\ UNCHANGED <<trees, next_id, clock, viewer, disk, uploading, creator, uploaded>>

\* restore that returns at once and leaves the journal to the next start.
Command_restore_without_replay ==
    /\ Running("Restore", "iter")
    /\ stack' = <<>>
    /\ UNCHANGED <<trees, next_id, clock, viewer, disk, uploading, creator, uploaded, crashes>>

\* Command::restore: one round of the loop over the journal in key order,
\* which calls finish for the entry; after the last entry restore returns.
Command_restore ==
    /\ Running("Restore", "iter")
    /\ LET after == {id \in DOMAIN delete_journal :
                        top_frame.cursor = None \/ id > top_frame.cursor[1]}
           cmd_id == SetMin(after)
       IN  IF after = {}
           THEN stack' = <<>>
           ELSE stack' = Append(SetFrame([top_frame EXCEPT !.cursor = Some(cmd_id)]),
                                Frame(delete_journal[cmd_id], cmd_id,
                                      FirstStep(delete_journal[cmd_id].kind)))
    /\ UNCHANGED <<trees, next_id, clock, viewer, disk, uploading, creator, uploaded, crashes>>

----------------------------------------------------------------------------
(* delete.rs: a command run from its first step to its last with nothing   *)
(* in between, as a function of the trees.                                 *)

\* The trees but the journal.
Db ==
    [users |-> users, emails |-> emails, sessions |-> sessions, files |-> files,
     file_names |-> file_names, albums |-> albums,
     user_to_album |-> user_to_album, album_to_user |-> album_to_user,
     inclusions |-> inclusions, fragments |-> fragments]

\* The keys that scan_prefix(prefix '.') returns, in order.
Scanned(keys, prefix, ord) ==
    LET found == {k \in keys : k[1] = prefix}
    IN  [i \in 1..Cardinality(found) |->
            CHOOSE k \in found :
                Cardinality({j \in found : ord[j[2]] < ord[k[2]]}) = i - 1]

run_delete_album(db, album_id) ==
    LET acl == {k \in db.album_to_user : k[1] = album_id}
        gone == {<<k[2], album_id>> : k \in acl}
    IN  [db EXCEPT
            !.albums = Remove(@, album_id),
            !.album_to_user = @ \ acl,
            !.user_to_album = [k \in DOMAIN @ \ gone |-> @[k]],
            !.fragments = [k \in {j \in DOMAIN @ : j[1] # album_id} |-> @[k]],
            !.inclusions = {k \in @ : k[1] # album_id}]

RECURSIVE run_delete_file_loop(_, _, _, _)
run_delete_file_loop(db, keys, file_id, file) ==
    IF keys = <<>> THEN db
    ELSE LET album_id == Head(keys)[2]
             e0 == Engine_new(album_id, db.albums[album_id], db.fragments)
             e1 == Engine_commit(Engine_remove(e0, file_id, file), clock)
         IN  IF album_id \notin DOMAIN db.albums
             THEN run_delete_file_loop(db, Tail(keys), file_id, file)
             ELSE IF e0.panic \/ e1.panic THEN db
             ELSE run_delete_file_loop(
                      [db EXCEPT !.albums = Insert(@, album_id, e1.album),
                                 !.fragments = e1.fragments,
                                 !.inclusions = @ \ {Head(keys)}],
                      Tail(keys), file_id, file)

run_delete_file(db, file_id, file) ==
    run_delete_file_loop(
        [db EXCEPT !.files = Remove(@, file_id),
                   !.file_names = Remove(@, <<file.owner_id, file.metadata.name>>)],
        Scanned(db.inclusions, file_id, ByteOrder), file_id, file)

RECURSIVE run_delete_user_albums(_, _)
run_delete_user_albums(db, keys) ==
    IF keys = <<>> THEN db
    ELSE run_delete_user_albums(run_delete_album(db, Head(keys)[2]), Tail(keys))

\* The loop over the inclusions finds no key that starts with the user id,
\* and reads the file id from the empty value of the keys it would find.
run_delete_user(db, user_id) ==
    LET db1 == IF user_id \in DOMAIN db.users
               THEN [db EXCEPT !.users = Remove(@, user_id),
                               !.emails = Remove(@, db.users[user_id].email)]
               ELSE db
        db2 == [db1 EXCEPT !.sessions = {k \in @ : k[1] # user_id}]
    IN  run_delete_user_albums(db2, Scanned(DOMAIN db2.user_to_album, user_id, ByteOrder))

run_finish(db, cmd) ==
    IF cmd.kind = "Album" THEN run_delete_album(db, cmd.id)
    ELSE IF cmd.kind = "File" THEN run_delete_file(db, cmd.id, cmd.file[1])
    ELSE run_delete_user(db, cmd.id)

\* restore run to its end: finish for every entry of the journal in key order.
RECURSIVE run_restore(_, _, _)
run_restore(db, journal, ids) ==
    IF ids = <<>> THEN db
    ELSE run_restore(run_finish(db, journal[Head(ids)]), journal, Tail(ids))

RestoredFrom(db, journal) == run_restore(db, journal, Ascending(DOMAIN journal))

Restored == RestoredFrom(Db, delete_journal)

----------------------------------------------------------------------------
(* file.rs: upload *)

\* wire::FileMetadata; the mime type plays no part and is left out.
FileMetadata(name, last_modified) == [name |-> name, last_modified |-> last_modified]

\* The transaction of upload without the abort: the name that had an entry
\* is overwritten.
upload_txn_overwrites(owner_id, file_id, file) ==
    IF owner_id \notin DOMAIN users
    THEN [result |-> "Unauthorized", db |-> [files |-> files, file_names |-> file_names]]
    ELSE [result |-> "Ok",
          db |-> [files |-> Insert(files, file_id, file),
                  file_names |-> Insert(file_names, <<owner_id, file.metadata.name>>,
                                        file_id)]]

\* The transaction of upload: the body writes the record and the name, and
\* aborts where the name had an entry; an aborted body commits nothing.
upload_txn(owner_id, file_id, file) ==
    LET owner_file_name == <<owner_id, file.metadata.name>>
        written == [files |-> Insert(files, file_id, file),
                    file_names |-> Insert(file_names, owner_file_name, file_id)]
        kept == [files |-> files, file_names |-> file_names]
    IN  IF owner_id \notin DOMAIN users
        THEN [result |-> "Unauthorized", db |-> kept]
        ELSE IF owner_file_name \in DOMAIN file_names
        THEN [result |-> "FileExists", db |-> kept]
        ELSE [result |-> "Ok", db |-> written]

upload(key, metadata, width, height) ==
    \E file_id \in FileIds \ uploaded :
        LET owner_id == key[1]
            file == File(owner_id, width, height, metadata.last_modified, metadata.name)
            txn == upload_txn(owner_id, file_id, file)
        IN  IF key \notin sessions THEN Fail("Unauthorized")
            ELSE IF txn.result # "Ok" THEN Fail(txn.result)
            ELSE /\ files' = txn.db.files
                 /\ file_names' = txn.db.file_names
                 /\ uploaded' = uploaded \cup {file_id}
                 /\ UNCHANGED <<users, emails, sessions, albums, user_to_album,
                                album_to_user, inclusions, fragments,
                                delete_journal, next_id, stack, clock, viewer, disk, uploading, creator,
                                crashes>>

----------------------------------------------------------------------------
(* The specification *)

\* The session keys requests carry: those of the first state and one that
\* names no session.
Keys == {<<"u0", "k0">>, <<"u1", "k1">>, <<"u0", "k1">>}

\* An id that names no file.
NoFile == "id_x"

IdLists(max) == UNION {[1..n -> FileIds \cup {NoFile}] : n \in 0..max}

\* No fragment id lies beyond head: the bound on the commits of a run.
HeadsWithin(head) == \A k \in DOMAIN fragments : k[2] <= head

CreateAlbum == \E key \in Keys, tz \in Zones : album_create(key, AlbumSettings(tz))

UpdateAlbum(head) ==
    \E key \in Keys, album_id \in AlbumIds, tz \in Zones :
        album_update(key, album_id, AlbumSettings(tz)) /\ HeadsWithin(head)'

AddFiles(max, head) ==
    \E key \in Keys, album_id \in AlbumIds, ids \in IdLists(max) :
        add_remove(key, album_id, ids, TRUE) /\ HeadsWithin(head)'

RemoveFiles(max, head) ==
    \E key \in Keys, album_id \in AlbumIds, ids \in IdLists(max) :
        add_remove(key, album_id, ids, FALSE) /\ HeadsWithin(head)'

ShareAlbum ==
    \E key \in Keys, album_id \in AlbumIds, email \in Emails, role \in Roles :
        share(key, album_id, [email |-> email, role |-> role])

UnshareAlbum(head) ==
    \E key \in Keys, album_id \in AlbumIds, email \in Emails :
        unshare(key, album_id, [key |-> email]) /\ HeadsWithin(head)'

DeleteAlbum == \E key \in Keys, album_id \in AlbumIds : album_delete(key, album_id)

DeleteUser == \E key \in Keys : user_delete(key)

\* The album and permission handlers.
Next ==
    \/ CreateAlbum
    \/ UpdateAlbum(MaxHead)
    \/ AddFiles(MaxIds, MaxHead)
    \/ RemoveFiles(MaxIds, MaxHead)
    \/ ShareAlbum
    \/ UnshareAlbum(MaxHead)

Spec == Init /\ [][Next]_vars

\* The same handlers interleaved with the steps of delete commands.
NextDelete ==
    \/ CreateAlbum
    \/ UpdateAlbum(MaxHeadDelete)
    \/ AddFiles(MaxIds, MaxHeadDelete)
    \/ RemoveFiles(MaxIds, MaxHeadDelete)
    \/ ShareAlbum
    \/ UnshareAlbum(MaxHeadDelete)
    \/ DeleteAlbum
    \/ DeleteUser
    \/ Command_run
    \/ Command_finish
    \/ delete_album_albums
    \/ delete_album_acl
    \/ delete_album_fragments
    \/ delete_album_inclusions
    \/ delete_user_users
    \/ delete_user_sessions
    \/ delete_user_albums
    \/ delete_user_files

SpecDelete == Init /\ [][NextDelete]_vars

----------------------------------------------------------------------------
(* Uploads and File commands, with crashes.  No handler of the server      *)
(* reaches the call that issues a File command (see delete_user_files), so *)
(* the commands are issued here for any file that has a record.            *)

Names == {"n0", "n1"}

Stamps == {0}

Serving == ~Restoring

Idle == stack = <<>>

InitFile ==
    /\ users = [u \in UserIds |-> User(EmailOf(u))]
    /\ emails = [m \in Emails |-> CHOOSE u \in UserIds : EmailOf(u) = m]
    /\ sessions = {<<"u0", "k0">>, <<"u1", "k1">>}
    /\ files = EmptyTree
    /\ file_names = EmptyTree
    /\ albums = EmptyTree
    /\ user_to_album = EmptyTree
    /\ album_to_user = {}
    /\ inclusions = {}
    /\ fragments = EmptyTree
    /\ delete_journal = EmptyTree
    /\ next_id = 0
    /\ stack = <<>>
    /\ clock = 0
    /\ creator = <<>>
    /\ uploaded = {}
    /\ crashes = 0
    /\ viewer = None
    /\ disk = {}
    /\ uploading = None

UploadFile ==
    /\ Serving
    /\ \E key \in Keys, name \in Names, ts \in Stamps :
           upload(key, FileMetadata(name, ts), 40, 41)

DeleteFile == \E file_id \in FileIds : file_delete(file_id)

NextFile ==
    \/ UploadFile
    \/ Serving /\ CreateAlbum
    \/ Serving /\ AddFiles(MaxIds, MaxHeadFile)
    \/ next_id < MaxCommands /\ DeleteFile
    \/ Command_run
    \/ Command_finish
    \/ delete_file_files
    \/ delete_file_inclusions
    \/ Crash
    \/ Command_restore

SpecFile == InitFile /\ [][NextFile]_vars

----------------------------------------------------------------------------
(* Commands of the three kinds, one at a time and with crashes: requests   *)
(* are made while no command runs.                                         *)

\* The run with crashes builds its albums before its first delete request.
Setup == Idle /\ next_id = 0

NextRestore ==
    \/ Setup /\ CreateAlbum
    \/ Setup /\ AddFiles(MaxIds, MaxHeadDelete)
    \/ Setup /\ ShareAlbum
    \/ next_id < MaxCommands /\ DeleteAlbum
    \/ next_id < MaxCommands /\ DeleteUser
    \/ next_id < MaxCommands /\ DeleteFile
    \/ Command_run
    \/ Command_finish
    \/ delete_album_albums
    \/ delete_album_acl
    \/ delete_album_fragments
    \/ delete_album_inclusions
    \/ delete_file_files
    \/ delete_file_inclusions
    \/ delete_user_users
    \/ delete_user_sessions
    \/ delete_user_albums
    \/ delete_user_files
    \/ Crash
    \/ StorageError
    \/ Command_restore

SpecRestore == Init /\ [][NextRestore]_vars

\* The server as main runs it: the commands that the handlers issue (Album
\* and User), requests between the steps of a command, a crash at any step
\* boundary and restore at every start.
DeleteStep ==
    \/ Command_run
    \/ Command_finish
    \/ delete_album_albums
    \/ delete_album_acl
    \/ delete_album_fragments
    \/ delete_album_inclusions
    \/ delete_user_users
    \/ delete_user_sessions
    \/ delete_user_albums
    \/ delete_user_files
    \/ Command_restore

NextLive ==
    \/ Serving /\ CreateAlbum
    \/ Serving /\ AddFiles(MaxIds, MaxHeadDelete)
    \/ Serving /\ ShareAlbum
    \/ Serving /\ UnshareAlbum(MaxHeadDelete)
    \/ DeleteAlbum
    \/ DeleteUser
    \/ DeleteStep
    \/ Crash

\* The thread that runs a command, and main in restore, take their next step
\* as long as no crash stops them; the crashes are finitely many.
SpecLive == Init /\ [][NextLive]_vars /\ WF_vars(DeleteStep)

\* File commands beside the requests and the Album commands that change the
\* albums the file is in.
NextFileAlbum ==
    \/ CreateAlbum
    \/ AddFiles(MaxIds, MaxHeadDelete)
    \/ UpdateAlbum(MaxHeadDelete)
    \/ DeleteAlbum
    \/ DeleteFile
    \/ Command_run
    \/ Command_finish
    \/ delete_album_albums
    \/ delete_album_acl
    \/ delete_album_fragments
    \/ delete_album_inclusions
    \/ delete_file_files
    \/ delete_file_inclusions

SpecFileAlbum == Init /\ [][NextFileAlbum]_vars

----------------------------------------------------------------------------
(* engine.rs: the Engine by itself, as its tests drive it *)

\* One staged call: add or remove of a file.
EngineOps == [op : {"add", "remove"}, file_id : FileIds]

OpLists(max) == UNION {[1..n -> EngineOps] : n \in 0..max}

\* The calls of one transaction between Engine::new and commit.
RECURSIVE Engine_apply(_, _)
Engine_apply(e, ops) ==
    IF ops = <<>> \/ e.panic THEN e
    ELSE LET file_id == Head(ops).file_id
             next == IF Head(ops).op = "add"
                     THEN Engine_add(e, file_id, UploadedFiles[file_id])
                     ELSE Engine_remove(e, file_id, UploadedFiles[file_id])
         IN  Engine_apply(next, Tail(ops))

\* db.transaction(|t| { Engine::new; the calls; commit; Ok(local_album) }).
Engine_txn(album_id, album, frags, ops, now) ==
    Engine_commit(Engine_apply(Engine_new(album_id, album, frags), ops), now)

\* The transaction with its result assigned back to the album; a panic
\* aborts the transaction.
engine_transaction(album_id, ops) ==
    LET e == Engine_txn(album_id, albums[album_id], fragments, ops, clock)
    IN  IF e.panic THEN Fail("Panic")
        ELSE /\ albums' = Insert(albums, album_id, e.album)
             /\ fragments' = e.fragments
             /\ UNCHANGED <<users, emails, sessions, files, file_names,
                            user_to_album, album_to_user, inclusions,
                            delete_journal, next_id, stack, clock, viewer, disk, uploading, creator,
                            uploaded, crashes>>

\* dummy_db and dummy_album: the album a of u0, empty, in either time zone,
\* last updated before the clock's now.
InitEngine ==
    /\ users = [u \in UserIds |-> User(EmailOf(u))]
    /\ emails = [m \in Emails |-> CHOOSE u \in UserIds : EmailOf(u) = m]
    /\ sessions = {<<"u0", "k0">>, <<"u1", "k1">>}
    /\ files = UploadedFiles
    /\ file_names = [k \in {<<UploadedFiles[f].owner_id, UploadedFiles[f].metadata.name>> : f \in FileIds} |->
                        CHOOSE f \in FileIds :
                            k = <<UploadedFiles[f].owner_id, UploadedFiles[f].metadata.name>>]
    /\ \E tz \in Zones : albums = [a \in {"a"} |-> Album(AlbumSettings(tz), 0, 0, 0, None)]
    /\ user_to_album = [k \in {<<"u0", "a">>} |-> "Owner"]
    /\ album_to_user = {<<"a", "u0">>}
    /\ inclusions = {}
    /\ fragments = Engine_empty("a", EmptyTree)
    /\ delete_journal = EmptyTree
    /\ next_id = 0
    /\ stack = <<>>
    /\ clock = 1
    /\ creator = [a \in {"a"} |-> "u0"]
    /\ uploaded = FileIds
    /\ crashes = 0
    /\ viewer = None
    /\ disk = {}
    /\ uploading = None

EngineTransaction ==
    \E ops \in OpLists(MaxOps) :
        engine_transaction("a", ops) /\ HeadsWithin(MaxHeadEngine)'

NextEngine == EngineTransaction

SpecEngine == InitEngine /\ [][NextEngine]_vars

----------------------------------------------------------------------------
(* The permission handlers with a third user, so that a caller, a target   *)
(* and the owner of an album can be three different users.                 *)

ThirdUser == "u2"

KeysOfThree == Keys \cup {<<ThirdUser, "k2">>}

EmailsOfThree == Emails \cup {"e2"}

InitOfThree ==
    /\ users = [u \in UserIds \cup {ThirdUser} |->
                    IF u = ThirdUser THEN User("e2") ELSE User(EmailOf(u))]
    /\ emails = [m \in EmailsOfThree |->
                     IF m = "e2" THEN ThirdUser
                     ELSE CHOOSE u \in UserIds : EmailOf(u) = m]
    /\ sessions = {<<"u0", "k0">>, <<"u1", "k1">>, <<ThirdUser, "k2">>}
    /\ files = UploadedFiles
    /\ file_names = [k \in {<<UploadedFiles[f].owner_id, UploadedFiles[f].metadata.name>> : f \in FileIds} |->
                        CHOOSE f \in FileIds :
                            k = <<UploadedFiles[f].owner_id, UploadedFiles[f].metadata.name>>]
    /\ albums = EmptyTree
    /\ user_to_album = EmptyTree
    /\ album_to_user = {}
    /\ inclusions = {}
    /\ fragments = EmptyTree
    /\ delete_journal = EmptyTree
    /\ next_id = 0
    /\ stack = <<>>
    /\ clock = 0
    /\ creator = <<>>
    /\ uploaded = FileIds
    /\ crashes = 0
    /\ viewer = None
    /\ disk = {}
    /\ uploading = None

CreateAlbumOfThree ==
    \E key \in KeysOfThree, tz \in Zones : album_create(key, AlbumSettings(tz))

AddFilesOfThree ==
    \E key \in KeysOfThree, album_id \in AlbumIds, ids \in IdLists(MaxIds) :
        add_remove(key, album_id, ids, TRUE) /\ HeadsWithin(MaxHeadDelete)'

ShareAlbumOfThree ==
    \E key \in KeysOfThree, album_id \in AlbumIds, email \in EmailsOfThree, role \in Roles :
        share(key, album_id, [email |-> email, role |-> role])

UnshareAlbumOfThree ==
    \E key \in KeysOfThree, album_id \in AlbumIds, email \in EmailsOfThree :
        unshare(key, album_id, [key |-> email]) /\ HeadsWithin(MaxHeadDelete)'

NextOfThree ==
    \/ CreateAlbumOfThree
    \/ AddFilesOfThree
    \/ ShareAlbumOfThree
    \/ UnshareAlbumOfThree

SpecOfThree == InitOfThree /\ [][NextOfThree]_vars

----------------------------------------------------------------------------
(* AddFiles requests that list more than one id, on shared albums.         *)

AddFilesOfList ==
    \E key \in Keys, album_id \in AlbumIds, ids \in IdLists(MaxIdsAdd) :
        add_remove(key, album_id, ids, TRUE) /\ HeadsWithin(MaxHeadDelete)'

NextAdd ==
    \/ CreateAlbum
    \/ ShareAlbum
    \/ AddFilesOfList

SpecAdd == Init /\ [][NextAdd]_vars

----------------------------------------------------------------------------
(* album/mod.rs serve, and a client that reads an album: the metadata      *)
(* first, then the fragment at the head it was told, then the Sections     *)
(* that Top lists.  Writers commit between the client's requests.          *)

Response(status, body) == [status |-> status, body |-> body]

\* fragment_id is None for "metadata" and Some(id) for a fragment.
serve(key, album_id, fragment_id) ==
    LET user_id == key[1]
    IN  IF ~test_logged_in(key) THEN Response("Unauthorized", None)
        ELSE IF <<user_id, album_id>> \notin DOMAIN user_to_album
        THEN Response("Unauthorized", None)
        ELSE IF fragment_id # None
        THEN LET id == Engine_get_id(album_id, fragment_id[1])
             IN  IF id \notin DOMAIN fragments THEN Response("NotFound", None)
                 ELSE Response("Ok", fragments[id])
        ELSE IF album_id \notin DOMAIN albums THEN Response("Unauthorized", None)
        ELSE Response("Ok", [album |-> albums[album_id],
                             role |-> user_to_album[<<user_id, album_id>>]])

\* The fragments the Top at head lists, with the Top itself, as stored.
Referenced(album_id, head) ==
    LET top_id == Engine_get_id(album_id, head)
        ids == IF top_id \in DOMAIN fragments /\ IsTopJson(fragments[top_id])
               THEN {head} \cup {fragments[top_id][i][2] : i \in DOMAIN fragments[top_id]}
               ELSE {}
    IN  [id \in {i \in ids : Engine_get_id(album_id, i) \in DOMAIN fragments} |->
            fragments[Engine_get_id(album_id, id)]]

\* The client asks for the metadata and keeps the head it is told.
ViewMetadata ==
    /\ viewer = None
    /\ \E key \in Keys, album_id \in AlbumIds :
           LET r == serve(key, album_id, None)
           IN  /\ r.status = "Ok"
               /\ viewer' = Some([key |-> key, album_id |-> album_id,
                                  head |-> r.body.album.fragment_head,
                                  referenced |-> Referenced(album_id, r.body.album.fragment_head),
                                  got |-> EmptyTree])
    /\ UNCHANGED <<users, emails, sessions, files, file_names, albums, user_to_album,
                   album_to_user, inclusions, fragments, delete_journal, next_id,
                   stack, clock, creator, uploaded, crashes, disk, uploading>>

\* The fragment ids the client has still to ask for: the head, then the
\* Sections of the Top it received.
ToView(v) ==
    IF v.head \notin DOMAIN v.got THEN {v.head}
    ELSE IF v.got[v.head].status # "Ok" \/ ~IsTopJson(v.got[v.head].body) THEN {}
    ELSE {v.got[v.head].body[i][2] : i \in DOMAIN v.got[v.head].body} \ DOMAIN v.got

ViewFragment ==
    /\ viewer # None
    /\ \E id \in ToView(viewer[1]) :
           viewer' = Some([viewer[1] EXCEPT !.got =
               Insert(@, id, serve(viewer[1].key, viewer[1].album_id, Some(id)))])
    /\ UNCHANGED <<users, emails, sessions, files, file_names, albums, user_to_album,
                   album_to_user, inclusions, fragments, delete_journal, next_id,
                   stack, clock, creator, uploaded, crashes, disk, uploading>>

\* The album is created and shared before the client starts to read.
CreateAlbumToRead == viewer = None /\ CreateAlbum

ShareAlbumToRead == viewer = None /\ ShareAlbum

\* The writers' requests name one file each.
AddFileWhileRead ==
    \E key \in Keys, album_id \in AlbumIds, file_id \in FileIds :
        add_remove(key, album_id, <<file_id>>, TRUE) /\ HeadsWithin(MaxHeadDelete)'

RemoveFileWhileRead ==
    \E key \in Keys, album_id \in AlbumIds, file_id \in FileIds :
        add_remove(key, album_id, <<file_id>>, FALSE) /\ HeadsWithin(MaxHeadDelete)'

NextRead ==
    \/ CreateAlbumToRead
    \/ ShareAlbumToRead
    \/ UpdateAlbum(MaxHeadDelete)
    \/ AddFileWhileRead
    \/ RemoveFileWhileRead
    \/ UnshareAlbum(MaxHeadDelete)
    \/ ViewMetadata
    \/ ViewFragment

SpecRead == Init /\ [][NextRead]_vars

----------------------------------------------------------------------------
(* user.rs login and file.rs list, and the handlers with logins, uploads   *)
(* and the steps of delete commands between them.                          *)

\* verified is the outcome of verify_password for the password sent; key is
\* the session key new_id draws.
login(json, verified, key) ==
    IF json.email \notin DOMAIN emails THEN Fail("Unauthorized")
    ELSE LET user_id == emails[json.email]
         IN  IF user_id \notin DOMAIN users THEN Fail("Panic")
             ELSE IF ~verified THEN Fail("Unauthorized")
             ELSE /\ key[1] = user_id
                  /\ sessions' = sessions \cup {key}
                  /\ UNCHANGED <<users, emails, files, file_names, albums,
                                 user_to_album, album_to_user, inclusions, fragments,
                                 delete_journal, next_id, stack, clock, viewer, disk, uploading,
                                 creator, uploaded, crashes>>

\* The response of the file list: the (name, file id) pairs under the owner.
file_list(key) ==
    LET owner_id == key[1]
    IN  IF key \notin sessions THEN Response("Unauthorized", None)
        ELSE Response("Ok", {<<k[2], file_names[k]>> :
                                k \in {j \in DOMAIN file_names : j[1] = owner_id}})

\* One file id is left for an upload.
FirstUploads == {"id_0", "id_2"}

InitUser ==
    /\ users = [u \in UserIds |-> User(EmailOf(u))]
    /\ emails = [m \in Emails |-> CHOOSE u \in UserIds : EmailOf(u) = m]
    /\ sessions = {<<"u0", "k0">>, <<"u1", "k1">>}
    /\ files = [f \in FirstUploads |-> UploadedFiles[f]]
    /\ file_names = [k \in {<<UploadedFiles[f].owner_id, UploadedFiles[f].metadata.name>> : f \in FirstUploads} |->
                        CHOOSE f \in FirstUploads :
                            k = <<UploadedFiles[f].owner_id, UploadedFiles[f].metadata.name>>]
    /\ albums = EmptyTree
    /\ user_to_album = EmptyTree
    /\ album_to_user = {}
    /\ inclusions = {}
    /\ fragments = EmptyTree
    /\ delete_journal = EmptyTree
    /\ next_id = 0
    /\ stack = <<>>
    /\ clock = 0
    /\ creator = <<>>
    /\ uploaded = FirstUploads
    /\ crashes = 0
    /\ viewer = None
    /\ disk = {}
    /\ uploading = None

Login ==
    \E email \in Emails, verified \in BOOLEAN, key \in Keys \ sessions :
        login([email |-> email], verified, key)

UploadByUser ==
    \E key \in Keys, name \in Names, ts \in Stamps :
        upload(key, FileMetadata(name, ts), 40, 41)

\* Requests that name one file, or an id that names none.
AddFile(head) ==
    \E key \in Keys, album_id \in AlbumIds, file_id \in FileIds \cup {NoFile} :
        add_remove(key, album_id, <<file_id>>, TRUE) /\ HeadsWithin(head)'

RemoveFile(head) ==
    \E key \in Keys, album_id \in AlbumIds, file_id \in FileIds \cup {NoFile} :
        add_remove(key, album_id, <<file_id>>, FALSE) /\ HeadsWithin(head)'

NextUser ==
    \/ Login
    \/ UploadByUser
    \/ CreateAlbum
    \/ UpdateAlbum(MaxHeadFile)
    \/ AddFile(MaxHeadFile)
    \/ RemoveFile(MaxHeadFile)
    \/ ShareAlbum
    \/ UnshareAlbum(MaxHeadFile)
    \/ DeleteAlbum
    \/ DeleteUser
    \/ Command_run
    \/ Command_finish
    \/ delete_album_albums
    \/ delete_album_acl
    \/ delete_album_fragments
    \/ delete_album_inclusions
    \/ delete_user_users
    \/ delete_user_sessions
    \/ delete_user_albums
    \/ delete_user_files

SpecUser == InitUser /\ [][NextUser]_vars

----------------------------------------------------------------------------
(* What the properties speak of *)

\* A Section is never stored empty, so a fragment is a Top exactly when it
\* is a list of (day, fragment id, length) triples, the empty list included.
TopKeys(album_id) ==
    {k \in DOMAIN fragments : k[1] = album_id /\ IsTopJson(fragments[k])}

SectionKeys(album_id) ==
    {k \in DOMAIN fragments : k[1] = album_id /\ ~IsTopJson(fragments[k])}

\* The Tops stored for the album.
Tops(album_id) == {Top_deserialize(fragments[k]) : k \in TopKeys(album_id)}

FragmentIds(album_id) == {k[2] : k \in {j \in DOMAIN fragments : j[1] = album_id}}

RECURSIVE SumLengths(_, _)
SumLengths(top, days) ==
    IF days = {} THEN 0
    ELSE LET d == CHOOSE x \in days : TRUE
         IN  top[d].length + SumLengths(top, days \ {d})

\* The (ts, file_id, width, height) entries of a stored fragment.
Entries(k) == {fragments[k][i] : i \in DOMAIN fragments[k]}

\* The multiset of the entries of all Sections of the album: how many
\* Sections hold each entry (a Section holds an entry at most once).
EntryBag(album_id) ==
    [x \in UNION {Entries(k) : k \in SectionKeys(album_id)} |->
        Cardinality({k \in SectionKeys(album_id) : x \in Entries(k)})]

Contains(album_id, file_id) ==
    \E k \in SectionKeys(album_id) : \E x \in Entries(k) : x[2] = file_id

AclOf(album_id) == {k \in DOMAIN user_to_album : k[2] = album_id}

----------------------------------------------------------------------------
(* The properties *)

\* C1: every album in albums has a fragment stored at (id, fragment_head),
\* and that fragment is a Top.
AlbumHeadIsTop ==
    \A a \in DOMAIN albums :
        /\ Engine_get_id(a, albums[a].fragment_head) \in DOMAIN fragments
        /\ IsTopJson(fragments[Engine_get_id(a, albums[a].fragment_head)])

\* C2: for every album in albums a Top is stored, and the fragment ids stored
\* under the album's prefix are exactly fragment_head and the ids its Top
\* lists.
NoOrphanFragments ==
    \A a \in DOMAIN albums :
        /\ Tops(a) # {}
        /\ \A top \in Tops(a) :
               FragmentIds(a) = {albums[a].fragment_head}
                                \cup {top[d].fragment_id : d \in DOMAIN top}

\* C3: for every album and every entry (day, fid, n) of its Top, the fragment
\* stored at fid is a Section of exactly n entries.
TopLengthsMatchSections ==
    \A a \in DOMAIN albums : \A top \in Tops(a) : \A d \in DOMAIN top :
        LET k == Engine_get_id(a, top[d].fragment_id)
        IN  /\ k \in SectionKeys(a)
            /\ Len(fragments[k]) = top[d].length
            /\ Cardinality(Entries(k)) = top[d].length

TwoFilesOneDay ==
    \E a \in DOMAIN albums : \E top \in Tops(a) : \E d \in DOMAIN top :
        top[d].length >= 2

\* C4: for every album in albums, length is the sum of the lengths of the
\* entries of its Top.
AlbumLengthIsTopSum ==
    \A a \in DOMAIN albums : \A top \in Tops(a) :
        albums[a].length = SumLengths(top, DOMAIN top)

\* C5: for every album in albums, date_range is None exactly when its Top is
\* empty, and otherwise the least and the greatest day of the Top.
DateRangeMatchesTop ==
    \A a \in DOMAIN albums : \A top \in Tops(a) :
        albums[a].date_range =
            IF DOMAIN top = {} THEN None
            ELSE Some(<<SetMin(DOMAIN top), SetMax(DOMAIN top)>>)

\* C6: for every album and every entry (day, fid, n) of its Top, every entry
\* of the Section at fid buckets to day under the time zone the album record
\* holds now.
SectionsBucketUnderAlbumZone ==
    \A a \in DOMAIN albums : \A top \in Tops(a) : \A d \in DOMAIN top :
        LET k == Engine_get_id(a, top[d].fragment_id)
        IN  k \in DOMAIN fragments =>
                \A x \in Entries(k) :
                    Bucket(albums[a].description.time_zone, x[1]) = d

\* C7: a step that changes an album's time zone keeps the multiset of the
\* entries of its Sections and the album's length.
RebucketPreservesEntries ==
    [][\A a \in DOMAIN albums \cap DOMAIN albums' :
           albums[a].description.time_zone # albums'[a].description.time_zone
               => /\ EntryBag(a)' = EntryBag(a)
                  /\ albums'[a].length = albums[a].length]_vars

\* C8: while no delete command runs, the inclusion of a file in an album is
\* stored exactly when a Section of the album holds the file.
InclusionMirror ==
    stack = <<>> =>
        \A f \in FileIds, a \in AlbumIds :
            <<f, a>> \in inclusions <=> Contains(a, f)

\* C9: in every state, those of a running cascade included, user_to_album
\* holds (u, a) exactly when album_to_user holds (a, u).
AclMirror ==
    \A u \in UserIds, a \in AlbumIds :
        <<u, a>> \in DOMAIN user_to_album <=> <<a, u>> \in album_to_user

AclHalfDeleted ==
    /\ Running("Album", "album_to_user")
    /\ top_frame.cursor # None
    /\ album_to_user # {}

\* C10: for every album in albums exactly one user_to_album entry has the
\* role Owner, and it is the entry of the user who created the album.
OneOwnerTheCreator ==
    \A a \in DOMAIN albums :
        {k \in AclOf(a) : user_to_album[k] = "Owner"} = {<<creator[a], a>>}

SharedAlbum ==
    \E a \in DOMAIN albums :
        \E k \in AclOf(a) : user_to_album[k] # "Owner" /\ k[1] # creator[a]

\* C11: file_names holds (o, n) -> f exactly when files holds f with owner o
\* and name n; hence no two records share an owner and a name.
FileNamesMirrorFiles ==
    /\ \A k \in DOMAIN file_names :
           /\ file_names[k] \in DOMAIN files
           /\ files[file_names[k]].owner_id = k[1]
           /\ files[file_names[k]].metadata.name = k[2]
    /\ \A f \in DOMAIN files :
           LET k == <<files[f].owner_id, files[f].metadata.name>>
           IN  k \in DOMAIN file_names /\ file_names[k] = f

\* C12: an upload for an owner and a name that file_names holds ends with
\* FileExists and commits nothing; a step that adds a file record adds it
\* under a name that had no entry, and no entry ever changes the id it maps to.
UploadOfExistingNameFails ==
    /\ [](\A key \in sessions, name \in Names, ts \in Stamps,
             file_id \in FileIds \ uploaded :
              (key[1] \in DOMAIN users /\ <<key[1], name>> \in DOMAIN file_names) =>
                  LET txn == upload_txn(key[1], file_id,
                                        File(key[1], 40, 41, ts, name))
                  IN  /\ txn.result = "FileExists"
                      /\ txn.db.files = files
                      /\ txn.db.file_names = file_names)
    /\ [][/\ \A f \in DOMAIN files' \ DOMAIN files :
                 <<files'[f].owner_id, files'[f].metadata.name>> \notin DOMAIN file_names
          /\ \A k \in DOMAIN file_names \cap DOMAIN file_names' :
                 file_names'[k] = file_names[k]]_vars

NameTakenIdLeft ==
    /\ Serving
    /\ uploaded # FileIds
    /\ \E key \in sessions : \E name \in Names :
           key[1] \in DOMAIN users /\ <<key[1], name>> \in DOMAIN file_names

\* The commands of the journal that no handler is running: a handler that
\* served a request returned an error and left them to the next start.
Abandoned ==
    {id \in DOMAIN delete_journal :
        ~Restoring /\ \A i \in DOMAIN stack : stack[i].cmd_id # id}

\* C14: while the commands of the journal are being run, by their handlers
\* or by restore, no step, a crash included, changes the trees that restore
\* run to its end would leave, so that the run that crashes and is restored
\* ends where the run without a crash ends; when restore returns the journal
\* is empty, so that another restore finds nothing to do.
RestoreReachesSameState ==
    [][(stack # <<>> /\ delete_journal # <<>> /\ Abandoned = {}) =>
           /\ \A db \in {Db'}, journal \in {delete_journal'} :
                  RestoredFrom(db, journal) = Restored
           /\ (Restoring /\ stack' = <<>>) => delete_journal' = <<>>]_vars

RestoreReplaysNested ==
    /\ Restoring
    /\ Len(stack) = 3
    /\ stack[2].cmd.kind = "User"
    /\ top_frame.pc = "finish"

\* C18: the journal holds the command of every handler that has been
\* entered, from before its first step until after its last; an entry leaves
\* the journal only in finish, after the handler of that entry has returned;
\* and a handler that ends in an error leaves the journal as it is.
JournalCoversHandler ==
    /\ [](\A i \in DOMAIN stack :
              (stack[i].cmd.kind # "Restore" /\ stack[i].pc # "run") =>
                  /\ stack[i].cmd_id \in DOMAIN delete_journal
                  /\ delete_journal[stack[i].cmd_id] = stack[i].cmd)
    /\ [][\A id \in DOMAIN delete_journal \ DOMAIN delete_journal' :
              /\ stack # <<>>
              /\ top_frame.cmd_id = id
              /\ top_frame.pc = "finish"]_vars
    /\ [][(~Restoring /\ stack # <<>> /\ top_frame.pc # "finish" /\ stack' = <<>>) =>
              delete_journal' = delete_journal]_vars

FailedHandlerEntryStays ==
    /\ stack = <<>>
    /\ Abandoned # {}
    /\ \E id \in Abandoned : delete_journal[id].kind = "User" /\ delete_journal[id].id \notin DOMAIN users

\* What a reader of the album sees: per day of the Top the length and the
\* Section, the album's length and its date range.
AlbumView(album_id, album, frags) ==
    LET e == Engine_new(album_id, album, frags)
    IN  [days |-> [ts \in DOMAIN e.top |->
                      [length |-> e.top[ts].length,
                       section |-> Engine_read(e, e.top[ts].fragment_id)]],
         length |-> album.length,
         date_range |-> album.date_range]

\* AddFiles([file_id]) and then RemoveFiles([file_id]) by the same user, as
\* add_remove runs its two transactions on the trees of this state.
AddThenRemove(user_id, album_id, file_id) ==
    LET e0 == Engine_new(album_id, albums[album_id], fragments)
        st1 == add_remove_loop([e |-> e0, inclusions |-> inclusions, error |-> "Ok"],
                               <<file_id>>, TRUE, user_id, album_id)
        e1 == Engine_commit(st1.e, clock)
        e2 == Engine_new(album_id, e1.album, e1.fragments)
        st2 == add_remove_loop([e |-> e2, inclusions |-> st1.inclusions, error |-> "Ok"],
                               <<file_id>>, FALSE, user_id, album_id)
        e3 == Engine_commit(st2.e, clock)
    IN  [added |-> ~e0.panic /\ st1.error = "Ok" /\ ~st1.e.panic /\ ~e1.panic,
         removed |-> ~e2.panic /\ st2.error = "Ok" /\ ~st2.e.panic /\ ~e3.panic,
         album |-> e3.album, fragments |-> e3.fragments, inclusions |-> st2.inclusions]

\* The users, albums and files for which the claim's pair of requests goes
\* through: the user may write, the file is the user's and is not in the album.
Addable(user_id, album_id, file_id) ==
    /\ test_user_can_write(user_id, album_id) = "Ok"
    /\ album_id \in DOMAIN albums
    /\ ~Contains(album_id, file_id)
    /\ <<file_id, album_id>> \notin inclusions
    /\ AddThenRemove(user_id, album_id, file_id).added

\* C13: adding a file that is not in the album and removing it again leaves
\* the Sections, the days and lengths of the Top, the album's length and date
\* range and the inclusions as they were before the add; the description
\* stays and fragment_head is strictly larger.
AddThenRemoveRestores ==
    \A key \in sessions, album_id \in DOMAIN albums, file_id \in DOMAIN files :
        Addable(key[1], album_id, file_id) =>
            LET after == AddThenRemove(key[1], album_id, file_id)
            IN  /\ after.removed
                /\ AlbumView(album_id, after.album, after.fragments)
                       = AlbumView(album_id, albums[album_id], fragments)
                /\ after.inclusions = inclusions
                /\ after.album.description = albums[album_id].description
                /\ after.album.fragment_head > albums[album_id].fragment_head
                /\ \A k \in DOMAIN after.fragments \cup DOMAIN fragments :
                       k[1] # album_id =>
                           /\ k \in DOMAIN after.fragments \cap DOMAIN fragments
                           /\ after.fragments[k] = fragments[k]

\* A file joins a day of the album that holds another file.
AddToFilledDay ==
    \E key \in sessions, album_id \in DOMAIN albums, file_id \in DOMAIN files :
        /\ Addable(key[1], album_id, file_id)
        /\ albums[album_id].length >= 1
        /\ files[file_id].metadata.last_modified # 0
        /\ \E other \in DOMAIN files :
               /\ Contains(album_id, other)
               /\ Bucket(albums[album_id].description.time_zone,
                         files[other].metadata.last_modified)
                      = Bucket(albums[album_id].description.time_zone,
                               files[file_id].metadata.last_modified)

\* A command of the kind for the id is on its way: a frame of the deleting
\* thread or an entry of the journal carries it.
Pending(kind, id) ==
    \/ \E i \in DOMAIN stack : stack[i].cmd.kind = kind /\ stack[i].cmd.id = id
    \/ \E j \in DOMAIN delete_journal :
           delete_journal[j].kind = kind /\ delete_journal[j].id = id

\* The users whose User command has run to its end.
DeletedUsers == {u \in UserIds \ DOMAIN users : ~Pending("User", u)}

\* The albums whose Album command has run to its end.
DeletedAlbums == {a \in DOMAIN creator \ DOMAIN albums : ~Pending("Album", a)}

\* C15: once the User command of u has completed, files holds no record
\* owned by u, file_names no entry under u and inclusions no edge of a file
\* of u.
DeletedUserOwnsNoFile ==
    \A u \in DeletedUsers :
        /\ \A f \in DOMAIN files : files[f].owner_id # u
        /\ \A k \in DOMAIN file_names : k[1] # u
        /\ \A k \in inclusions : UploadedFiles[k[1]].owner_id # u

\* C16: the handler of User(u) issues a nested Album command only for an
\* album in which u holds the role Owner, so that an album shared with u
\* outlives the command.
NestedAlbumOnlyForOwner ==
    [][(Running("User", "user_to_album") /\ Len(stack') = Len(stack) + 1) =>
           LET album_id == stack'[Len(stack')].cmd.id
           IN  is_owner(user_to_album[<<top_frame.cmd.id, album_id>>])]_vars

\* C19: once the Album command of a has completed, under every interleaving
\* with the album and permission requests, albums holds no record of a, no
\* entry of either ACL tree names a and fragments holds no key of a.
AlbumDeleteLeavesNothing ==
    \A a \in DeletedAlbums :
        /\ a \notin DOMAIN albums
        /\ AclOf(a) = {}
        /\ {k \in album_to_user : k[1] = a} = {}
        /\ FragmentIds(a) = {}

\* An album that was shared and held files has been deleted.
SharedFilledAlbumDeleted ==
    /\ stack = <<>>
    /\ delete_journal = <<>>
    /\ \E a \in DeletedAlbums : \E k \in inclusions : k[2] = a
    /\ DOMAIN users = UserIds

\* C20: once the Album command of a has completed, inclusions holds no key
\* f.a.
AlbumDeleteLeavesNoInclusion ==
    \A a \in DeletedAlbums : \A k \in inclusions : k[2] # a

\* The keys of the journal that a run of the server with its crashes hands out.
JournalIds == 0..(Cardinality(UserIds) + Cardinality(AlbumIds) * (MaxCrashes + 3))

DeletedFiles == {f \in FileIds \ DOMAIN files : ~Pending("File", f)}

\* C21: once the File command of f has completed, files and file_names hold
\* nothing of f, inclusions holds no key f.a and no Section of an album
\* holds f; and the step of the command that takes f out of an album writes
\* the album back with its length one less.
FileDeleteLeavesNothing ==
    /\ [](\A f \in DeletedFiles :
              /\ \A k \in DOMAIN file_names : file_names[k] # f
              /\ \A k \in inclusions : k[1] # f
              /\ \A a \in DOMAIN albums : ~Contains(a, f))
    /\ [][\A a \in DOMAIN albums \cap DOMAIN albums' :
              (Running("File", "inclusions") /\ Contains(a, top_frame.cmd.id)
                   /\ <<top_frame.cmd.id, a>> \in inclusions \ inclusions') =>
                  albums'[a].length = albums[a].length - 1]_vars

\* C22: a commit with a staged day deletes the old Top and the Sections it
\* touched, writes the k non-empty staged Sections under head+1 .. head+k in
\* ascending day order and the new Top under head+k+1, and leaves every other
\* fragment as it was.
CommitAdvancesHead ==
    [][\A a \in DOMAIN albums \cap DOMAIN albums' :
           (albums'[a] # albums[a] \/ fragments' # fragments) =>
               LET old == albums[a].fragment_head
                   new == albums'[a].fragment_head
                   top == Top_deserialize(fragments'[<<a, new>>])
                   fresh == {d \in DOMAIN top : top[d].fragment_id > old}
                   k == Cardinality(fresh)
               IN  /\ <<a, old>> \notin DOMAIN fragments'
                   /\ <<a, new>> \in DOMAIN fragments'
                   /\ new = old + k + 1
                   /\ \A i \in 1..k : top[Ascending(fresh)[i]].fragment_id = old + i
                   /\ {j[2] : j \in {x \in DOMAIN fragments' : x[1] = a}}
                          = {top[d].fragment_id : d \in DOMAIN top} \cup {new}
                   /\ \A j \in DOMAIN fragments \cap DOMAIN fragments' :
                          fragments'[j] = fragments[j]]_vars

\* Two files of one day were added to the empty album and one was removed:
\* the Section is at id 3, the Top at id 4, and fragments 1 and 2 are gone.
TwoAddedOneRemoved ==
    /\ "a" \in DOMAIN albums
    /\ albums["a"].fragment_head = 4
    /\ albums["a"].length = 1
    /\ FragmentIds("a") = {3, 4}
    /\ Tops("a") = {[d \in {Bucket(albums["a"].description.time_zone, 1)} |->
                        [fragment_id |-> 3, length |-> 1]]}

\* The album a holds the single file id_1, in the Section at id 3 under the
\* Top at id 4.
SingleFileAtThree ==
    /\ "a" \in DOMAIN albums
    /\ albums["a"].fragment_head = 4
    /\ albums["a"].length = 1
    /\ FragmentIds("a") = {3, 4}
    /\ ~IsTopJson(fragments[<<"a", 3>>])
    /\ {x[2] : x \in Entries(<<"a", 3>>)} = {"id_1"}

\* One commit that stages remove(id_0) and remove(id_1) on the album a.
RemoveBoth ==
    Engine_txn("a", albums["a"], fragments,
               <<[op |-> "remove", file_id |-> "id_0"],
                 [op |-> "remove", file_id |-> "id_1"]>>, clock)

\* C23, as the source has it: from the album with fragment_head 4 and the
\* single file id_1, the commit of remove(id_0) and remove(id_1) stores the
\* new Top [] at fragment id 5, leaves no Section, and sets length 0 and
\* date_range None.
RemoveLastFileTopAtFive ==
    SingleFileAtThree =>
        /\ ~RemoveBoth.panic
        /\ RemoveBoth.album.fragment_head = 5
        /\ {k \in DOMAIN RemoveBoth.fragments : k[1] = "a"} = {<<"a", 5>>}
        /\ RemoveBoth.fragments[<<"a", 5>>] = Top_serialize(EmptyTop)
        /\ RemoveBoth.album.length = 0
        /\ RemoveBoth.album.date_range = None

\* C23, as the claim has it: the new Top [] is stored at fragment id 6.
RemoveLastFileTopAtSix ==
    SingleFileAtThree =>
        /\ ~RemoveBoth.panic
        /\ {k \in DOMAIN RemoveBoth.fragments : k[1] = "a"} = {<<"a", 6>>}
        /\ RemoveBoth.fragments[<<"a", 6>>] = Top_serialize(EmptyTop)
        /\ RemoveBoth.album.length = 0
        /\ RemoveBoth.album.date_range = None

\* C24: the commit of an Engine on which nothing was staged, at a time after
\* the album's last update, leaves fragments and the album record, with
\* fragment_head, length, last_update and date_range, as they were.
EmptyCommitWritesNothing ==
    \A a \in DOMAIN albums :
        LET e == Engine_txn(a, albums[a], fragments, <<>>, albums[a].last_update + 1)
        IN  /\ ~e.panic
            /\ e.fragments = fragments
            /\ e.album = albums[a]

\* The album holds files of two days.
TwoDaysFilled ==
    /\ "a" \in DOMAIN albums
    /\ albums["a"].length >= 2
    /\ albums["a"].date_range # None
    /\ albums["a"].date_range[1][1] # albums["a"].date_range[1][2]

\* How many entries the Sections of a view hold for the file.
EntriesOf(view, file_id) ==
    Cardinality({<<d, k>> \in UNION {{<<d, k>> : k \in DOMAIN view.days[d].section[1]} :
                                         d \in DOMAIN view.days} : k[2] = file_id})

\* C25: a file added twice, in one commit or in a commit after the one that
\* added it, has exactly one entry in the Sections of the album and counts
\* once in the length of its day and in the length of the album.
AddTwiceCountsOnce ==
    \A a \in DOMAIN albums : \A f \in FileIds :
        LET add == [op |-> "add", file_id |-> f]
            once == Engine_txn(a, albums[a], fragments, <<add>>, clock)
            twice == Engine_txn(a, albums[a], fragments, <<add, add>>, clock)
            later == Engine_txn(a, once.album, once.fragments, <<add>>, clock)
            view == AlbumView(a, once.album, once.fragments)
            day == Bucket(albums[a].description.time_zone,
                          UploadedFiles[f].metadata.last_modified)
        IN  ~Engine_new(a, albums[a], fragments).panic =>
                /\ ~once.panic /\ ~twice.panic /\ ~later.panic
                /\ EntriesOf(view, f) = 1
                /\ view.days[day].length = Cardinality(DOMAIN view.days[day].section[1])
                /\ once.album.length =
                       albums[a].length + (IF Contains(a, f) THEN 0 ELSE 1)
                /\ AlbumView(a, twice.album, twice.fragments) = view
                /\ AlbumView(a, later.album, later.fragments) = view

\* C26: the commit of the removal of a file that is not in the album leaves
\* the Sections, the days and lengths of the Top, the album's length and its
\* date range as they were; every fragment of the album is then the new Top
\* or a Section that the Top names with a length of at least one.
RemoveAbsentChangesNothing ==
    \A a \in DOMAIN albums : \A f \in FileIds :
        (~Engine_new(a, albums[a], fragments).panic /\ ~Contains(a, f)) =>
            LET r == Engine_txn(a, albums[a], fragments,
                                <<[op |-> "remove", file_id |-> f]>>, clock)
                view == AlbumView(a, r.album, r.fragments)
            IN  /\ ~r.panic
                /\ view = AlbumView(a, albums[a], fragments)
                /\ \A d \in DOMAIN view.days : view.days[d].length >= 1
                /\ {k[2] : k \in {j \in DOMAIN r.fragments : j[1] = a}}
                       = {Engine_new(a, r.album, r.fragments).top[d].fragment_id :
                              d \in DOMAIN view.days} \cup {r.album.fragment_head}

\* A file that is not in the album falls on a day for which the album has a
\* Section, and another such file on a day for which it has none.
AbsentFileOnBothKindsOfDay ==
    \E a \in DOMAIN albums : \E f, g \in FileIds :
        LET top == Engine_new(a, albums[a], fragments).top
            day(x) == Bucket(albums[a].description.time_zone,
                             UploadedFiles[x].metadata.last_modified)
        IN  /\ ~Engine_new(a, albums[a], fragments).panic
            /\ ~Contains(a, f) /\ ~Contains(a, g)
            /\ day(f) \in DOMAIN top
            /\ day(g) \notin DOMAIN top

\* C27: a step that gives an album id its record is a CreateAlbum of a user
\* who has a users record; after it the album's only fragment is the empty
\* Top "[]" at fragment id 0, the record has fragment_head 0, length 0 and no
\* date_range, and the creator holds Owner in user_to_album with the mirrored
\* album_to_user entry.  (A caller without a users record creates nothing.)
CreateAlbumStartsEmpty ==
    [][\A a \in AlbumIds :
          (a \notin DOMAIN albums /\ a \in DOMAIN albums') =>
              /\ a \in DOMAIN creator' /\ a \notin DOMAIN creator
              /\ creator'[a] \in DOMAIN users
              /\ {k \in DOMAIN fragments' : k[1] = a} = {Engine_get_id(a, 0)}
              /\ fragments'[Engine_get_id(a, 0)] = Top_serialize(EmptyTop)
              /\ albums'[a].fragment_head = 0
              /\ albums'[a].length = 0
              /\ albums'[a].date_range = None
              /\ <<creator'[a], a>> \in DOMAIN user_to_album'
              /\ user_to_album'[<<creator'[a], a>>] = "Owner"
              /\ {k \in DOMAIN user_to_album' : k[2] = a} = {<<creator'[a], a>>}
              /\ {k \in album_to_user' : k[1] = a} = {<<a, creator'[a]>>}]_vars

\* An album as CreateAlbum left it, while a session is still open for a user
\* whose users record is gone.
CreatedWhileUserRecordGone ==
    /\ \E a \in DOMAIN albums :
           /\ albums[a].fragment_head = 0
           /\ a \in DOMAIN creator /\ creator[a] \in DOMAIN users
           /\ <<creator[a], a>> \in DOMAIN user_to_album
    /\ \E s \in sessions : s[1] \notin DOMAIN users

\* C28: a ShareAlbum call that names the role Owner, or whose target holds
\* Owner on the album, leaves user_to_album and album_to_user as they were,
\* so the owner still holds Owner; and no step of the handlers takes the role
\* Owner from an entry or gives it to an entry of an existing album.
ShareLeavesOwner ==
    [][/\ \A key \in KeysOfThree, album_id \in AlbumIds, email \in EmailsOfThree, role \in Roles :
              LET target == <<emails[email], album_id>>
              IN  (/\ \/ role = "Owner"
                      \/ /\ target \in DOMAIN user_to_album
                         /\ user_to_album[target] = "Owner"
                   /\ share(key, album_id, [email |-> email, role |-> role]))
                  => /\ user_to_album' = user_to_album
                     /\ album_to_user' = album_to_user
       /\ \A k \in DOMAIN user_to_album :
              user_to_album[k] = "Owner"
                  => k \in DOMAIN user_to_album' /\ user_to_album'[k] = "Owner"
       /\ \A k \in DOMAIN user_to_album' :
              (user_to_album'[k] = "Owner" /\ k[2] \in DOMAIN albums)
                  => k \in DOMAIN user_to_album /\ user_to_album[k] = "Owner"]_vars

\* An editor with an open session beside the owner: the editor's ShareAlbum
\* that targets the owner passes every check before the role is written.
EditorBesideOwner ==
    \E a \in DOMAIN albums, key \in sessions :
        /\ <<key[1], a>> \in DOMAIN user_to_album
        /\ user_to_album[<<key[1], a>>] = "Editor"
        /\ \E k \in DOMAIN user_to_album : k[2] = a /\ user_to_album[k] = "Owner"

\* C29: for every album in albums and every file held in a Section of the
\* album, the owner of the file has a user_to_album entry for the album.
ContributorsSeeAlbum ==
    \A a \in DOMAIN albums, f \in DOMAIN files :
        Contains(a, f) => <<files[f].owner_id, a>> \in DOMAIN user_to_album

\* C30: an UnshareAlbum call whose target holds Owner on the album, or whose
\* target has no entry for the album, or whose caller is not the target and
\* has no writable role on the album, leaves user_to_album, album_to_user,
\* inclusions, fragments and the album record as they were.
UnshareLeavesOwner ==
    [][\A key \in KeysOfThree, album_id \in AlbumIds, email \in EmailsOfThree :
          LET target == <<emails[email], album_id>>
              caller == <<key[1], album_id>>
          IN  (/\ \/ /\ target \in DOMAIN user_to_album
                      /\ user_to_album[target] = "Owner"
                   \/ target \notin DOMAIN user_to_album
                   \/ /\ emails[email] # key[1]
                      /\ \/ caller \notin DOMAIN user_to_album
                         \/ user_to_album[caller] = "Reader"
               /\ unshare(key, album_id, [key |-> email]))
              => /\ user_to_album' = user_to_album
                 /\ album_to_user' = album_to_user
                 /\ inclusions' = inclusions
                 /\ fragments' = fragments
                 /\ albums' = albums]_vars

\* A reader and an editor, each with an open session and a file in the
\* album, beside the owner: the editor's UnshareAlbum of the owner reaches
\* the check of the role, the reader's UnshareAlbum of the editor stops at
\* the check of the caller, and either may unshare themselves.
ReaderAndEditorBesideOwner ==
    \E a \in DOMAIN albums, reader \in sessions, editor \in sessions :
        /\ <<reader[1], a>> \in DOMAIN user_to_album
        /\ user_to_album[<<reader[1], a>>] = "Reader"
        /\ <<editor[1], a>> \in DOMAIN user_to_album
        /\ user_to_album[<<editor[1], a>>] = "Editor"
        /\ \E k \in DOMAIN user_to_album : k[2] = a /\ user_to_album[k] = "Owner"
        /\ ~Engine_new(a, albums[a], fragments).panic
        /\ \E f \in DOMAIN files :
               /\ files[f].owner_id = editor[1]
               /\ Contains(a, f)
               /\ <<f, a>> \in inclusions

\* The caller may not write to the album, or the list names a file that is
\* missing or not the caller's.
Offending(key, album_id, ids) ==
    \/ <<key[1], album_id>> \notin DOMAIN user_to_album
    \/ ~can_write(user_to_album[<<key[1], album_id>>])
    \/ \E i \in DOMAIN ids :
           \/ ids[i] \notin DOMAIN files
           \/ files[ids[i]].owner_id # key[1]

\* C31: an AddFiles call whose caller has no writable role on the album, or
\* whose list names a file that does not exist or that the caller does not
\* own, leaves inclusions, fragments and the album record as they were: no
\* file of the list is added, those listed before the offending id included.
RefusedAddChangesNothing ==
    [][\/ /\ inclusions' = inclusions
          /\ fragments' = fragments
          /\ albums' = albums
       \/ \A key \in Keys, album_id \in AlbumIds, ids \in IdLists(MaxIdsAdd) :
              ~(Offending(key, album_id, ids) /\ add_remove(key, album_id, ids, TRUE))]_vars

\* An album that opens, with a writer who owns a file that is not yet in it
\* and a reader who owns a file: the writer's list of its own file followed
\* by the reader's file, and any list of the reader, are refused.
WriterAndReaderWithFiles ==
    \E a \in DOMAIN albums, writer \in sessions, reader \in sessions :
        /\ ~Engine_new(a, albums[a], fragments).panic
        /\ <<writer[1], a>> \in DOMAIN user_to_album
        /\ can_write(user_to_album[<<writer[1], a>>])
        /\ <<reader[1], a>> \in DOMAIN user_to_album
        /\ user_to_album[<<reader[1], a>>] = "Reader"
        /\ \E f \in DOMAIN files, g \in DOMAIN files :
               /\ files[f].owner_id = writer[1]
               /\ ~Contains(a, f)
               /\ files[g].owner_id = reader[1]

\* C33: every answer the client got for the head it was told and for the
\* Sections of that Top is the fragment that head referenced when the
\* metadata was served, whatever the writers committed in between.
ViewerGetsReferenced ==
    viewer # None =>
        \A id \in DOMAIN viewer[1].got :
            /\ id \in DOMAIN viewer[1].referenced
            /\ viewer[1].got[id] = Response("Ok", viewer[1].referenced[id])

\* The fragment ids stored for the album.
StoredIds(frags, album_id) == {k[2] : k \in {j \in DOMAIN frags : j[1] = album_id}}

\* C32: within an album a fragment id is never used again with other
\* content.  Every step writes fragments only at ids above every id stored
\* for the album and above the stored head, keeps the content of every id
\* that stays, and never lowers the highest stored id or the stored
\* fragment_head; so an id once written lies below every later write.  And
\* what the client was served for an id, at whatever time, is what the id
\* held when the metadata was served and what it holds now, if it is stored.
FragmentIdsNeverReused ==
    /\ [](viewer # None =>
             \A id \in DOMAIN viewer[1].got :
                 viewer[1].got[id].status = "Ok" =>
                     /\ id \in DOMAIN viewer[1].referenced
                            => viewer[1].got[id].body = viewer[1].referenced[id]
                     /\ Engine_get_id(viewer[1].album_id, id) \in DOMAIN fragments
                            => viewer[1].got[id].body
                                   = fragments[Engine_get_id(viewer[1].album_id, id)])
    /\ [][\A a \in AlbumIds :
            LET old == StoredIds(fragments, a)
                new == StoredIds(fragments', a)
            IN  /\ \A i \in new :
                       (i \notin old \/ fragments'[<<a, i>>] # fragments[<<a, i>>])
                           => /\ \A j \in old : i > j
                              /\ a \in DOMAIN albums => i > albums[a].fragment_head
                /\ old # {} => new # {} /\ SetMax(new) >= SetMax(old)
                /\ (a \in DOMAIN albums /\ a \in DOMAIN albums')
                       => albums'[a].fragment_head >= albums[a].fragment_head]_vars

\* The client was served the Top and, after a later commit that deleted
\* fragments below the new head, a Section of that Top.
ViewerServedAcrossCommit ==
    /\ viewer # None
    /\ \E id \in DOMAIN viewer[1].got :
           /\ id # viewer[1].head
           /\ viewer[1].got[id].status = "Ok"
    /\ viewer[1].album_id \in DOMAIN albums
    /\ albums[viewer[1].album_id].fragment_head > viewer[1].head
    /\ Engine_get_id(viewer[1].album_id, viewer[1].head) \notin DOMAIN fragments

\* C34: a request that carries a key that is not in sessions is answered
\* Unauthorized by the reading handlers and changes nothing in the writing
\* ones (create, update, add, remove, share, unshare, upload, delete album,
\* delete user); and once the User command of u has run to its end no key
\* of u is in sessions, so none authenticates a later call.
UnknownKeyIsRefused ==
    /\ [](\A key \in Keys \ sessions :
             /\ file_list(key).status = "Unauthorized"
             /\ \A album_id \in AlbumIds :
                    /\ serve(key, album_id, None).status = "Unauthorized"
                    /\ \A id \in 0..MaxHeadFile :
                           serve(key, album_id, Some(id)).status = "Unauthorized")
    /\ [](\A u \in DeletedUsers : \A key \in sessions : key[1] # u)
    /\ [][\/ UNCHANGED vars
          \/ \A key \in Keys \ sessions :
                 /\ \A tz \in Zones : ~album_create(key, AlbumSettings(tz))
                 /\ ~user_delete(key)
                 /\ \A name \in Names, ts \in Stamps :
                        ~upload(key, FileMetadata(name, ts), 40, 41)
                 /\ \A album_id \in AlbumIds :
                        /\ \A tz \in Zones : ~album_update(key, album_id, AlbumSettings(tz))
                        /\ \A file_id \in FileIds \cup {NoFile} :
                               /\ ~add_remove(key, album_id, <<file_id>>, TRUE)
                               /\ ~add_remove(key, album_id, <<file_id>>, FALSE)
                        /\ \A email \in Emails :
                               /\ ~unshare(key, album_id, [key |-> email])
                               /\ \A role \in Roles :
                                      ~share(key, album_id, [email |-> email, role |-> role])
                        /\ ~album_delete(key, album_id)]_vars

\* The User command of a user has run to its end while an album of another
\* user is there to be asked for: the deleted user's keys are still sent.
DeletedUserBesideAlbum ==
    /\ stack = <<>>
    /\ \E u \in DeletedUsers :
           /\ \E key \in Keys : key[1] = u
           /\ \E a \in DOMAIN albums : creator[a] # u

\* Nothing of the user is left: no users or emails record, no session key,
\* no album the user created or holds Owner on.
NothingLeftOf(u, db) ==
    /\ u \notin DOMAIN db.users
    /\ \A m \in DOMAIN db.emails : db.emails[m] # u
    /\ \A key \in db.sessions : key[1] # u
    /\ \A a \in DOMAIN db.albums :
           /\ db.creator[a] # u
           /\ <<u, a>> \in DOMAIN db.user_to_album => db.user_to_album[<<u, a>>] # "Owner"

\* C40: when the User command of u ends, and as long as no other is under
\* way afterwards, no album that u owns, no session key of u and no users or
\* emails record of u exists, whatever creates and logins of u came between
\* the steps of the handler.
DeletedUserLeavesNothing ==
    /\ [][(/\ Len(stack) = 1
            /\ top_frame.cmd.kind = "User"
            /\ top_frame.pc = "finish"
            /\ stack' = <<>>)
           => \A db \in {[users |-> users', emails |-> emails', sessions |-> sessions',
                           albums |-> albums', creator |-> creator',
                           user_to_album |-> user_to_album']} :
                  NothingLeftOf(top_frame.cmd.id, db)]_vars
    /\ [](\A u \in DeletedUsers :
             NothingLeftOf(u, [users |-> users, emails |-> emails, sessions |-> sessions,
                               albums |-> albums, creator |-> creator,
                               user_to_album |-> user_to_album]))

\* The User command of a user who had created an album has run to its end,
\* with a nested command issued on the way.
CreatorDeletedWithNested ==
    /\ stack = <<>>
    /\ \E u \in DeletedUsers :
           /\ \E a \in DOMAIN creator : creator[a] = u
           /\ \A key \in Keys : key[1] = u => key \notin sessions
           /\ next_id >= 2

\* C35: the Album handler removes albums[a] before anything else of a.  A
\* step of the handler (the deleting thread moves) that removes an ACL edge, a fragment or an inclusion
\* edge of a starts with albums[a] absent, and in every state in which the
\* handler is past its first step albums[a] is absent, so that no request
\* finds the record of a partly deleted album.
AlbumRecordGoesFirst ==
    /\ [][\A a \in AlbumIds :
             (/\ stack # <<>>
              /\ stack' # stack
              /\ top_frame.cmd.kind = "Album"
              /\ top_frame.cmd.id = a
              /\ \/ \E k \in DOMAIN user_to_album \ DOMAIN user_to_album' : k[2] = a
                 \/ \E k \in album_to_user \ album_to_user' : k[1] = a
                 \/ \E k \in DOMAIN fragments \ DOMAIN fragments' : k[1] = a
                 \/ \E k \in inclusions \ inclusions' : k[2] = a)
             => a \notin DOMAIN albums /\ a \notin DOMAIN albums']_vars
    /\ [](\A i \in DOMAIN stack :
             (stack[i].cmd.kind = "Album" /\ stack[i].pc \notin {"run", "albums"})
                 => stack[i].cmd.id \notin DOMAIN albums)

\* The handler is in its loop over the fragments of a filled album: one
\* fragment is gone, a Section is still stored, and its creator has a session.
FragmentsPartlyDeleted ==
    /\ Running("Album", "fragments")
    /\ top_frame.cursor # None
    /\ \E k \in DOMAIN fragments : k[1] = top_frame.cmd.id /\ ~IsTopJson(fragments[k])
    /\ \E key \in sessions : creator[top_frame.cmd.id] = key[1]

----------------------------------------------------------------------------
(* The image directories on disk: upload in its steps, the File command    *)
(* that clears them, and the start of the server as main makes it.         *)

\* The three directories that clean_files sweeps and delete_file clears.
ImageDirs == {"upload", "medium", "small"}

\* temp_id: the name of the frame that ffmpeg takes from a video.
temp_id(file_id) == <<file_id, "png">>

\* main is past clean_files and restore: the server handles requests.
Started == IF stack = <<>> THEN TRUE ELSE stack[1].cmd.kind \notin {"Main", "Restore"}

\* upload, up to its loop over the body: the session is looked up, new_id
\* names the file, and create_new opens it in the upload directory.
upload_open(key, metadata, video) ==
    \E file_id \in FileIds \ uploaded :
        /\ uploading = None
        /\ IF key \notin sessions THEN Fail("Unauthorized")
           ELSE IF <<"upload", file_id>> \in disk THEN Fail("Io")
           ELSE /\ disk' = disk \cup {<<"upload", file_id>>}
                /\ uploading' = Some([key |-> key, file_id |-> file_id,
                                      metadata |-> metadata, video |-> video])
                /\ uploaded' = uploaded \cup {file_id}
                /\ UNCHANGED <<trees, next_id, stack, clock, viewer, creator, crashes>>

\* body.try_next() returns an error, as it does where the client ends the
\* request inside the body: the ? returns it from upload, and the file that
\* was opened stays.
upload_body_error ==
    /\ uploading # None
    /\ uploading' = None
    /\ UNCHANGED <<trees, next_id, stack, clock, viewer, disk, creator, uploaded, crashes>>

\* What the closure of block_in_place has written when it is `stage` steps
\* far: the frame of a video, then the medium image, then the small one.
derived(file_id, video, stage) ==
    (IF video /\ stage >= 1 THEN {<<"temp", temp_id(file_id)>>} ELSE {})
        \cup (IF stage >= 2 THEN {<<"medium", file_id>>} ELSE {})
        \cup (IF stage >= 3 THEN {<<"small", file_id>>} ELSE {})

\* The removals that follow the closure: all four files of the id where it
\* returned an error, the frame alone where it returned Ok.  A file that is
\* not there is no error.
upload_cleanup(on_disk, file_id, is_err) ==
    IF is_err
    THEN on_disk \ {<<"upload", file_id>>, <<"medium", file_id>>,
                    <<"small", file_id>>, <<"temp", temp_id(file_id)>>}
    ELSE on_disk \ {<<"temp", temp_id(file_id)>>}

\* upload from the end of the body: the closure derives the images, which
\* fails at any stage for a body that is no image, and runs the transaction
\* where all three stages are done; then the removals.
upload_finish(stage, width, height) ==
    /\ uploading # None
    /\ LET u == uploading[1]
           owner_id == u.key[1]
           file == File(owner_id, width, height, u.metadata.last_modified,
                        u.metadata.name)
           txn == IF stage < 3
                  THEN [result |-> "Vips",
                        db |-> [files |-> files, file_names |-> file_names]]
                  ELSE upload_txn(owner_id, u.file_id, file)
           written == disk \cup derived(u.file_id, u.video, stage)
       IN  /\ files' = txn.db.files
           /\ file_names' = txn.db.file_names
           /\ disk' = upload_cleanup(written, u.file_id, txn.result # "Ok")
    /\ uploading' = None
    /\ UNCHANGED <<users, emails, sessions, albums, user_to_album, album_to_user,
                   inclusions, fragments, delete_journal, next_id, stack, clock,
                   viewer, creator, uploaded, crashes>>

\* The process dies at a step boundary and is started again: what the trees
\* and the directories hold stays, the requests in flight are gone, and main
\* begins.
main ==
    /\ crashes < MaxCrashes
    /\ Started
    /\ stack' = <<Frame(Command("Main", "", None), 0, "clean_files")>>
    /\ uploading' = None
    /\ crashes' = crashes + 1
    /\ UNCHANGED <<trees, next_id, clock, viewer, disk, creator, uploaded>>

\* clean_path: the entries of one directory whose name is no key of files.
clean_path(on_disk, dir) == {e \in on_disk : e[1] = dir /\ e[2] \notin DOMAIN files}

\* The first call of main: clean_files removes what clean_path finds in the
\* three image directories.  The call of restore is the next statement.
main_clean_files ==
    /\ Running("Main", "clean_files")
    /\ disk' = disk \ UNION {clean_path(disk, dir) : dir \in ImageDirs}
    /\ stack' = <<Frame(Command("Restore", "", None), 0, "iter")>>
    /\ UNCHANGED <<trees, next_id, clock, viewer, uploading, creator, uploaded, crashes>>

UploadOpen ==
    /\ Started
    /\ \E key \in Keys, name \in Names, ts \in Stamps, video \in BOOLEAN :
           upload_open(key, FileMetadata(name, ts), video)

UploadFinish == \E stage \in 0..3 : upload_finish(stage, 40, 41)

NextDisk ==
    \/ UploadOpen
    \/ upload_body_error
    \/ UploadFinish
    \/ next_id < MaxCommands /\ DeleteFile
    \/ next_id < MaxCommands /\ DeleteUser
    \/ Command_run
    \/ Command_finish
    \/ delete_file_files
    \/ delete_file_inclusions
    \/ delete_user_users
    \/ delete_user_sessions
    \/ delete_user_albums
    \/ delete_user_files
    \/ main
    \/ main_clean_files
    \/ Command_restore

SpecDisk == InitFile /\ [][NextDisk]_vars

\* C36: at the start restore has run to its end before the sweep of the
\* image directories begins: where main is about to call clean_files no
\* command is left in the journal, so that the sweep finds files as the
\* pending cascades leave it.
SweepAfterRestore ==
    Running("Main", "clean_files") => delete_journal = EmptyTree

\* No request is under way: no upload is between its steps and no command
\* of the journal runs.
AtRest == stack = <<>> /\ uploading = None

\* C37: an upload whose transaction fails leaves none of its four files and
\* changes neither files nor file_names, and an upload that succeeds leaves
\* its upload, medium and small files beside its files record, so that at
\* rest every entry of the three image directories carries the id of a
\* record of files.
DiskOnlyForStoredFiles ==
    AtRest => \A e \in disk : e[1] \in ImageDirs => e[2] \in DOMAIN files

\* The engines that the transactions of the handlers commit for album a in
\* this state, over every request: add and remove of an id list, the re-add
\* of update, and the removals of unshare and of the File command.
StagedCommits(a) ==
    LET e0 == Engine_new(a, albums[a], fragments)
        listed == Engine_list_file_ids(e0)
        start == [e |-> e0, inclusions |-> inclusions, error |-> "Ok"]
    IN  {Engine_commit(add_remove_loop(start, ids, add, u, a).e, clock) :
            ids \in IdLists(MaxIds), add \in BOOLEAN, u \in UserIds}
        \cup {Engine_commit(Engine_remove(e0, f, files[f]), clock) : f \in DOMAIN files}
        \cup (IF listed = None THEN {}
              ELSE {Engine_commit(update_loop(Engine_clear_all(e0), listed[1]), clock)}
                   \cup {Engine_commit(unshare_loop([e |-> e0, inclusions |-> inclusions],
                                                    listed[1], u, a).e, clock) :
                            u \in UserIds})

\* C38: commit's unsigned album.length + length - prev_length never goes
\* below zero: in every reachable state, for every transaction a handler
\* can run on a stored album and every day it stages, album.length plus the
\* new length of the Section is at least the length the Top recorded.
LengthNeverUnderflows ==
    [](\A a \in DOMAIN albums : \A e \in StagedCommits(a) : ~e.underflow)

\* An album that commits have filled, and a transaction that takes files out
\* of a day the Top records, so that the subtraction has something to take.
CommitShrinksRecordedDay ==
    \E a \in DOMAIN albums :
        /\ albums[a].length >= 1
        /\ albums[a].fragment_head >= 2
        /\ \E e \in StagedCommits(a) :
               /\ ~e.panic
               /\ e.album.length < albums[a].length
               /\ \E ts \in DOMAIN e.cache :
                      ts \in DOMAIN Engine_new(a, albums[a], fragments).top

\* The keys of album a that a commit wrote: those its engine holds and the
\* tree did not.
Written(a, e) == {k \in DOMAIN e.fragments \ DOMAIN fragments : k[1] = a}

\* C39: no stored Top has an entry of length 0 and no stored Section is
\* empty (an album has at most one fragment of the shape of a Top, the empty
\* list included, and the Sections a Top names are not empty); a commit that
\* leaves a staged day's Section empty removes the day from the Top, deletes
\* the fragment the Section had and writes none in its place, so that it
\* writes one fragment for each staged day that is not empty and the Top.
NoEmptyDayIsStored ==
    [](\A a \in AlbumIds :
          /\ Cardinality(TopKeys(a)) <= 1
          /\ \A k \in TopKeys(a) : \A i \in DOMAIN fragments[k] :
                 /\ fragments[k][i][3] >= 1
                 /\ <<a, fragments[k][i][2]>> \in DOMAIN fragments
                        => fragments[<<a, fragments[k][i][2]>>] # <<>>
          /\ a \in DOMAIN albums =>
                 \A e \in StagedCommits(a) :
                     (~e.panic /\ DOMAIN e.cache # {}) =>
                         /\ \A ts \in DOMAIN e.cache :
                                e.cache[ts].section = EmptySection =>
                                    /\ ts \notin DOMAIN e.top
                                    /\ e.cache[ts].orig # None =>
                                           Engine_get_id(a, e.cache[ts].orig[1])
                                               \notin DOMAIN e.fragments
                         /\ Cardinality(Written(a, e))
                                = 1 + Cardinality({ts \in DOMAIN e.cache :
                                                      e.cache[ts].section # EmptySection})
                         /\ \A k \in Written(a, e) :
                                e.fragments[k] = <<>> => k[2] = e.album.fragment_head
                         /\ \A ts \in DOMAIN e.top : e.top[ts].length >= 1)

\* An album that commits have filled with files of two days, and a
\* transaction that takes the last file out of one of them.
CommitEmptiesStoredDay ==
    \E a \in DOMAIN albums :
        /\ albums[a].fragment_head >= 2
        /\ \E e \in StagedCommits(a) : \E ts \in DOMAIN e.cache :
               /\ ~e.panic
               /\ e.cache[ts].orig # None
               /\ e.cache[ts].section = EmptySection
               /\ DOMAIN e.top # {}

====
